---- MODULE Spec2Model ----
(***************************************************************************)
(* Model of the Scrabble engine of easy-scrabble-backend:                  *)
(*   - dictionary.py : the lexicon (Trie, Node, MaskItem)                  *)
(*   - scrabble.py   : Board, Word, Solution, move generator, scoring      *)
(*                                                                         *)
(* Conventions.  A Python str is a sequence of one-character strings; the  *)
(* blank tile is " ".  Indices that the code stores or returns (line       *)
(* indices, left_index, WordCouple.index, JokerTuple.index, rows, columns) *)
(* keep the code's 0-based values; TLA+ sequences are indexed from 1, so   *)
(* element i of a Python list l is l[i + 1] here.  A call that raises      *)
(* returns a record whose field exc names the exception ("" when none).    *)
(***************************************************************************)
EXTENDS Integers, Sequences, FiniteSets, TLC

VARIABLES
    trie,       \* the Trie object: levels (self.trie) and the Node fields
    loaded,     \* history: the set of words passed to _add_word so far
    query,      \* the last lexicon call: its name, arguments and result
    board,      \* Board.board: 225 cells, " " when empty
    board_values,       \* Board.board_values: value of the tile on each cell
    word_set,           \* Board.word_set
    position_to_words,  \* Board.position_to_words
    nb_moves,           \* Board.nb_moves
    rack,       \* Rack.tile_list handed to the generator
    gen,        \* the last generator call: inputs, iteration rank, result
    prev_gen,   \* the generator call before it
    play,       \* the last _play: solution committed and exception raised
    bag,        \* BagOfTile: bag, is_full, is_empty
    player_dict \* Game.player_dict: mode, score, rack, skips of each player

lexVars == <<trie, loaded, query>>
boardVars == <<board, board_values, word_set, position_to_words, nb_moves>>
genVars == <<rack, gen, prev_gen, play>>
gameVars == <<bag, player_dict>>
vars == <<trie, loaded, query, board, board_values, word_set,
          position_to_words, nb_moves, rack, gen, prev_gen, play,
          bag, player_dict>>

-----------------------------------------------------------------------------
(* Bounds of the model *)

\* longest word added to a lexicon built step by step
MaxWordLen == 3
\* number of _add_word calls in a behaviour of SpecTrie
MaxAdds == 2
\* longest mask handed to the masked search of SpecSearch
MaxMaskLen == 3
\* largest rack handed to the masked search of SpecSearch
MaxRackLen == 2
\* number of moves played on the board in a behaviour of SpecGen
MaxMoves == 3
\* calls of put_on_board on one board
MaxPuts == 4
\* draws from the bag in which random.choice is left free
MaxFreeDraws == 1
\* requests played in a behaviour of SpecGame
MaxRequests == 2

\* turns of the loop of automatic_play in a behaviour of SpecAuto
MaxTurns == 3

\* calls of the dictionary server in a behaviour of SpecClient
MaxCalls == 2

-----------------------------------------------------------------------------
(* Generic helpers *)

Min(a, b) == IF a < b THEN a ELSE b

Range(s) == {s[i] : i \in DOMAIN s}

\* the sequences over S of length lo..hi
SeqsOf(S, lo, hi) == UNION {[1..n -> S] : n \in lo..hi}

\* list.remove(x): drop the first occurrence of x
ListRemove(l, x) ==
    LET i == CHOOSE k \in DOMAIN l : l[k] = x /\ \A j \in 1..(k - 1) : l[j] # x
    IN  SubSeq(l, 1, i - 1) \o SubSeq(l, i + 1, Len(l))

\* list.count(x)
ListCount(l, x) == Cardinality({i \in DOMAIN l : l[i] = x})

\* str.replace(" ", letter)
StrReplaceBlank(string, letter) ==
    [i \in DOMAIN string |-> IF string[i] = " " THEN letter ELSE string[i]]

\* ord(c) - 64 for an uppercase letter c
Ord(c) ==
    CASE c = "A" -> 1 [] c = "B" -> 2 [] c = "C" -> 3 [] c = "D" -> 4
      [] c = "E" -> 5 [] c = "F" -> 6 [] c = "G" -> 7 [] c = "H" -> 8
      [] c = "I" -> 9 [] c = "J" -> 10 [] c = "K" -> 11 [] c = "L" -> 12
      [] c = "M" -> 13 [] c = "N" -> 14 [] c = "O" -> 15 [] c = "P" -> 16
      [] c = "Q" -> 17 [] c = "R" -> 18 [] c = "S" -> 19 [] c = "T" -> 20
      [] c = "U" -> 21 [] c = "V" -> 22 [] c = "W" -> 23 [] c = "X" -> 24
      [] c = "Y" -> 25 [] c = "Z" -> 26

\* lexicographic order of two Python str of uppercase letters (str.__lt__)
RECURSIVE StrLess(_, _)
StrLess(a, b) ==
    IF Len(a) = 0 THEN Len(b) > 0
    ELSE IF Len(b) = 0 THEN FALSE
    ELSE IF a[1] = b[1] THEN StrLess(Tail(a), Tail(b))
    ELSE Ord(a[1]) < Ord(b[1])

\* map(chr, range(65, 91))
UpperAlphabet == {"A", "B", "C", "D", "E", "F", "G", "H", "I", "J", "K", "L", "M",
                  "N", "O", "P", "Q", "R", "S", "T", "U", "V", "W", "X", "Y", "Z"}

-----------------------------------------------------------------------------
(* dictionary.py : Node and Trie *)

\* Trie.__init__: one level holding the root node, whose node_id is 0
TrieInit ==
    [levels         |-> << <<0>> >>,
     is_termination |-> (0 :> FALSE),
     edges_out      |-> (0 :> <<>>),
     edge_in        |-> (0 :> <<>>)]

\* Trie._root
TrieRoot(T) == T.levels[1][1]

\* Trie._max_depth
TrieMaxDepth(T) == Len(T.levels)

\* Trie._add_node_at_rank_n
AddNodeAtRank(levels, node, rank) ==
    LET lv == IF rank = Len(levels) THEN Append(levels, <<>>) ELSE levels
    IN  [lv EXCEPT ![rank + 1] = Append(@, node)]

\* the assertions at the head of _add_word and this_is_a_valid_word
WordArgOk(string) ==
    /\ \A i \in DOMAIN string : string[i] \in UpperAlphabet
    /\ 1 < Len(string)
    /\ Len(string) <= 15

\* the "except KeyError" branch of _add_word: create the edge and its node
AddEdge(T, current_node, letter, rank) ==
    LET new_node == Cardinality(DOMAIN T.is_termination)
    IN  [levels         |-> AddNodeAtRank(T.levels, new_node, rank),
         is_termination |-> (new_node :> FALSE) @@ T.is_termination,
         edges_out      |-> (new_node :> <<>>) @@
                            [T.edges_out EXCEPT ![current_node] = (letter :> new_node) @@ @],
         edge_in        |-> (new_node :> <<current_node, letter>>) @@ T.edge_in]

\* the loop of _add_word from letter i (0-based) on, then the termination mark
RECURSIVE AddWordLoop(_, _, _, _)
AddWordLoop(T, string, i, current_node) ==
    IF i = Len(string)
    THEN [T EXCEPT !.is_termination[current_node] = TRUE]
    ELSE LET letter == string[i + 1]
         IN  IF letter \in DOMAIN T.edges_out[current_node]
             THEN AddWordLoop(T, string, i + 1, T.edges_out[current_node][letter])
             ELSE LET T2 == AddEdge(T, current_node, letter, i + 1)
                  IN  AddWordLoop(T2, string, i + 1, T2.edges_out[current_node][letter])

\* Trie._add_word
add_word(T, string) == AddWordLoop(T, string, 0, TrieRoot(T))

\* Trie.load_from_json_word_list: _add_word for each word of the list
RECURSIVE LoadWords(_, _)
LoadWords(T, word_list) ==
    IF Len(word_list) = 0 THEN T
    ELSE LoadWords(add_word(T, Head(word_list)), Tail(word_list))

\* the walk of this_is_a_valid_word: -1 on KeyError, else the node reached
RECURSIVE WalkFrom(_, _, _, _)
WalkFrom(T, string, i, node) ==
    IF i = Len(string) THEN node
    ELSE IF string[i + 1] \in DOMAIN T.edges_out[node]
         THEN WalkFrom(T, string, i + 1, T.edges_out[node][string[i + 1]])
         ELSE -1

\* variant of IsTerminationAt: any node reached counts as a word
IsTerminationAt_Always(T, node) == TRUE

\* the node is_termination test that ends this_is_a_valid_word
IsTerminationAt(T, node) == T.is_termination[node]

\* Trie.this_is_a_valid_word, for an argument that passes its assertions
ValidWord(T, string) ==
    LET node == WalkFrom(T, string, 0, TrieRoot(T))
    IN  IF node = -1 THEN FALSE ELSE IsTerminationAt(T, node)

\* Trie.this_is_a_valid_word
this_is_a_valid_word(T, string) ==
    IF ~WordArgOk(string)
    THEN [exc |-> "AssertionError", value |-> FALSE]
    ELSE [exc |-> "", value |-> ValidWord(T, string)]

\* Trie._word_for_termination_node: follow edge_in up to the root
RECURSIVE word_for_termination_node(_, _)
word_for_termination_node(T, node) ==
    IF T.edge_in[node] = <<>> THEN <<>>
    ELSE word_for_termination_node(T, T.edge_in[node][1]) \o <<T.edge_in[node][2]>>

\* variant of JokerIndex: the index counted from 1
JokerIndex_OneBased(string) ==
    CHOOSE k \in DOMAIN string : string[k] = " " /\ \A j \in 1..(k - 1) : string[j] # " "

\* string.index(" ")
JokerIndex(string) ==
    (CHOOSE k \in DOMAIN string : string[k] = " " /\ \A j \in 1..(k - 1) : string[j] # " ") - 1

\* the assertions at the head of possible_word_set_from_string
PatternArgOk(string) ==
    /\ \A i \in DOMAIN string : string[i] \in UpperAlphabet \cup {" "}
    /\ Len(string) >= 1
    /\ Len(string) <= 15
    /\ ListCount(string, " ") = 1

\* Trie.possible_word_set_from_string: letter -> WordCouple(index, word_str)
possible_word_set_from_string(T, string) ==
    IF ~PatternArgOk(string)
    THEN [exc |-> "AssertionError", value |-> <<>>]
    ELSE IF ~WordArgOk(StrReplaceBlank(string, "A"))
    THEN [exc |-> "AssertionError", value |-> <<>>]
    ELSE LET keys == {letter \in UpperAlphabet : ValidWord(T, StrReplaceBlank(string, letter))}
         IN  [exc |-> "",
              value |-> [letter \in keys |->
                            [index |-> JokerIndex(string),
                             word_str |-> StrReplaceBlank(string, letter)]]]

-----------------------------------------------------------------------------
(* dictionary.py : MaskItem *)

\* MaskItem(item) for a dict item: {} or letter -> WordCouple
MaskItemDict(d) == [tag |-> "dict", letter |-> "", data |-> d]
\* MaskItem(item) for a str item: the letter on the board
MaskItemStr(c) == [tag |-> "str", letter |-> c, data |-> <<>>]
\* MaskItem(None)
MaskItemNone == [tag |-> "None", letter |-> "", data |-> <<>>]

has_no_letter(m) == m.tag \in {"dict", "None"}
has_letter(m) == m.tag = "str"
is_cross_word(m) == m.tag = "dict" /\ DOMAIN m.data # {}
is_open_to_any_letter(m) == m.tag = "dict" /\ DOMAIN m.data = {}
is_usable(m) == m.tag = "dict"
is_not_usable(m) == m.tag = "None"

-----------------------------------------------------------------------------
(* dictionary.py : Trie.possible_words_for_mask_with_rack *)

\* pw[pw_i][good_node] = tile list copy; .remove(letter)
ConsumeLetter(tile_list, letter) == ListRemove(tile_list, letter)

\* variant of ConsumeJoker: the blank is left on the rack
ConsumeJoker_Kept(tile_list) == tile_list

\* pw[pw_i][good_node] = tile list copy; .remove(" ")
ConsumeJoker(tile_list) == ListRemove(tile_list, " ")

\* "for letter in letter_4_next_set: good_node = node.edges_out[letter];
\* pw[pw_i][good_node] = ..." with the letter taken from the rack.  The
\* letter of an entry is the letter of the edge into its node.
DescendWithLetters(T, pw_next, node, tile_list, letters) ==
    [good_node \in {T.edges_out[node][letter] : letter \in letters} |->
        ConsumeLetter(tile_list, T.edge_in[good_node][2])] @@ pw_next

\* "if joker_case: for letter in ... - letter_4_next_set": descend with a blank
DescendWithJoker(T, pw_next, node, tile_list, letters) ==
    [good_node \in {T.edges_out[node][letter] : letter \in letters} |->
        ConsumeJoker(tile_list)] @@ pw_next

\* variant of JokerLetters: a blank is tried only when no letter tile fits
JokerLetters_OnlyIfNoLetter(allowed, edges, letter_4_next_set) ==
    IF letter_4_next_set = {} THEN allowed \cap edges ELSE {}

\* the letters a blank of the rack stands for on a node: the allowed edges
\* that no letter tile of the rack already takes
JokerLetters(allowed, edges, letter_4_next_set) ==
    (allowed \cap edges) \ letter_4_next_set

\* body of "for node in pw[pw_i - 1]" when mask_item.is_cross_word
StepCrossWord(T, pw_next, node, tile_list, mask_item) ==
    LET joker_case == " " \in Range(tile_list)
        letter_2_be_scan_set == {l \in Range(tile_list) : l \in DOMAIN mask_item.data}
        letter_4_next_set == letter_2_be_scan_set \cap DOMAIN T.edges_out[node]
        pw1 == DescendWithLetters(T, pw_next, node, tile_list, letter_4_next_set)
    IN  IF joker_case
        THEN DescendWithJoker(T, pw1, node, tile_list,
                 JokerLetters(DOMAIN mask_item.data, DOMAIN T.edges_out[node], letter_4_next_set))
        ELSE pw1

\* body of "for node in pw[pw_i - 1]" when mask_item.is_open_to_any_letter
StepOpen(T, pw_next, node, tile_list) ==
    LET joker_case == " " \in Range(tile_list)
        letter_2_be_scan_set == Range(tile_list) \ {" "}
        letter_4_next_set == letter_2_be_scan_set \cap DOMAIN T.edges_out[node]
        pw1 == DescendWithLetters(T, pw_next, node, tile_list, letter_4_next_set)
    IN  IF joker_case
        THEN DescendWithJoker(T, pw1, node, tile_list,
                 JokerLetters(UpperAlphabet, DOMAIN T.edges_out[node], letter_4_next_set))
        ELSE pw1

\* body of "for node in pw[pw_i - 1]" when mask_item.has_letter
StepLetter(T, pw_next, node, tile_list, mask_item) ==
    IF mask_item.letter \in DOMAIN T.edges_out[node]
    THEN (T.edges_out[node][mask_item.letter] :> tile_list) @@ pw_next
    ELSE pw_next

\* the entries one node of pw[pw_i - 1] adds to pw[pw_i]
StepNode(T, node, tile_list, mask_item) ==
    IF is_cross_word(mask_item)
        THEN StepCrossWord(T, <<>>, node, tile_list, mask_item)
    ELSE IF is_open_to_any_letter(mask_item)
        THEN StepOpen(T, <<>>, node, tile_list)
    ELSE StepLetter(T, <<>>, node, tile_list, mask_item)

\* "for node in pw[pw_i - 1]": pw[pw_i] from pw[pw_i - 1] under one mask
\* item, pw_next being the dict just appended.  A node of the trie has one
\* edge in, so that each entry comes from the node its edge starts from.
NextLevel(T, pw_prev, mask_item, pw_next) ==
    LET reached == UNION {DOMAIN StepNode(T, node, pw_prev[node], mask_item) :
                             node \in DOMAIN pw_prev}
    IN  [good_node \in reached |->
            StepNode(T, T.edge_in[good_node][1], pw_prev[T.edge_in[good_node][1]],
                     mask_item)[good_node]] @@ pw_next

\* "if pw_i >= min_length: words_are_long_enough_to_be_collected = True"
LongEnough(pw_i, min_length) == pw_i >= min_length

\* the body of "for mask_i, mask_item in enumerate(mask)" for one mask item.
\* state holds pw[pw_i - 1], termination_node_set, and whether the break has
\* ended the loop.
SearchBody(T, mask, min_length, mask_i, state) ==
    LET mask_item == mask[mask_i + 1]
        pw_i == mask_i + 1
    IN  IF state.break THEN state
        ELSE IF is_not_usable(mask_item) THEN [state EXCEPT !.break = TRUE]
        ELSE LET pw_new == NextLevel(T, state.pw, mask_item, <<>>)
             IN  [pw |-> pw_new,
                  termination_node_set |->
                      IF LongEnough(pw_i, min_length)
                      THEN state.termination_node_set \cup
                           {n \in DOMAIN pw_new : T.is_termination[n]}
                      ELSE state.termination_node_set,
                  break |-> FALSE]

\* "for mask_i, mask_item in enumerate(mask)" for the mask items lo..hi: the
\* first half of them, then the second half from the state the first leaves
RECURSIVE SearchLoop(_, _, _, _, _, _)
SearchLoop(T, mask, min_length, lo, hi, state) ==
    IF lo > hi THEN state
    ELSE IF lo = hi THEN SearchBody(T, mask, min_length, lo, state)
    ELSE LET first == SearchLoop(T, mask, min_length, lo, (lo + hi) \div 2, state)
         IN  IF first.break THEN first
             ELSE SearchLoop(T, mask, min_length, (lo + hi) \div 2 + 1, hi, first)

\* Trie.possible_words_for_mask_with_rack
possible_words_for_mask_with_rack(T, mask, tile_list, min_length) ==
    IF Len(mask) > TrieMaxDepth(T) THEN [exc |-> "AssertionError", value |-> {}]
    ELSE IF min_length = 0 THEN [exc |-> "", value |-> {}]
    ELSE IF min_length < 0 THEN [exc |-> "AssertionError", value |-> {}]
    ELSE [exc |-> "",
          value |-> {word_for_termination_node(T, n) :
                        n \in SearchLoop(T, mask, min_length, 0, Len(mask) - 1,
                                         [pw |-> (TrieRoot(T) :> tile_list),
                                          termination_node_set |-> {},
                                          break |-> FALSE]).termination_node_set}]

-----------------------------------------------------------------------------
(* scrabble.py : Board construction *)

\* Board.__init__ with no argument: the empty board
BoardInit ==
    /\ board = [i \in 0..224 |-> " "]
    /\ board_values = [i \in 0..224 |-> 0]
    /\ word_set = {}
    /\ position_to_words = <<>>
    /\ nb_moves = 0

\* no game: no bag and no player
GameIdle ==
    /\ bag = [bag |-> <<>>, is_full |-> FALSE, is_empty |-> FALSE]
    /\ player_dict = <<>>

\* no rack, no generator call and no play yet
GenIdle ==
    /\ rack = <<>>
    /\ gen = [op |-> "none"]
    /\ prev_gen = [op |-> "none"]
    /\ play = [op |-> "none"]
    /\ GameIdle

-----------------------------------------------------------------------------
(* scrabble.py : tables *)

\* LETTER_MULTIPLIER_SET[i] is element i + 1
LETTER_MULTIPLIER_SET ==
    << 1, 1, 1, 2, 1, 1, 1, 1, 1, 1, 1, 2, 1, 1, 1,
       1, 1, 1, 1, 1, 3, 1, 1, 1, 3, 1, 1, 1, 1, 1,
       1, 1, 1, 1, 1, 1, 2, 1, 2, 1, 1, 1, 1, 1, 1,
       2, 1, 1, 1, 1, 1, 1, 2, 1, 1, 1, 1, 1, 1, 2,
       1, 1, 1, 1, 1, 1, 1, 1, 1, 1, 1, 1, 1, 1, 1,
       1, 3, 1, 1, 1, 3, 1, 1, 1, 3, 1, 1, 1, 3, 1,
       1, 1, 2, 1, 1, 1, 2, 1, 2, 1, 1, 1, 2, 1, 1,
       1, 1, 1, 2, 1, 1, 1, 1, 1, 1, 1, 2, 1, 1, 1,
       1, 1, 2, 1, 1, 1, 2, 1, 2, 1, 1, 1, 2, 1, 1,
       1, 3, 1, 1, 1, 3, 1, 1, 1, 3, 1, 1, 1, 3, 1,
       1, 1, 1, 1, 1, 1, 1, 1, 1, 1, 1, 1, 1, 1, 1,
       2, 1, 1, 1, 1, 1, 1, 2, 1, 1, 1, 1, 1, 1, 2,
       1, 1, 1, 1, 1, 1, 2, 1, 2, 1, 1, 1, 1, 1, 1,
       1, 1, 1, 1, 1, 3, 1, 1, 1, 3, 1, 1, 1, 1, 1,
       1, 1, 1, 2, 1, 1, 1, 1, 1, 1, 1, 2, 1, 1, 1 >>

\* WORD_MULTIPLIER_SET[i] is element i + 1
WORD_MULTIPLIER_SET ==
    << 3, 1, 1, 1, 1, 1, 1, 3, 1, 1, 1, 1, 1, 1, 3,
       1, 2, 1, 1, 1, 1, 1, 1, 1, 1, 1, 1, 1, 2, 1,
       1, 1, 2, 1, 1, 1, 1, 1, 1, 1, 1, 1, 2, 1, 1,
       1, 1, 1, 2, 1, 1, 1, 1, 1, 1, 1, 2, 1, 1, 1,
       1, 1, 1, 1, 2, 1, 1, 1, 1, 1, 2, 1, 1, 1, 1,
       1, 1, 1, 1, 1, 1, 1, 1, 1, 1, 1, 1, 1, 1, 1,
       1, 1, 1, 1, 1, 1, 1, 1, 1, 1, 1, 1, 1, 1, 1,
       3, 1, 1, 1, 1, 1, 1, 2, 1, 1, 1, 1, 1, 1, 3,
       1, 1, 1, 1, 1, 1, 1, 1, 1, 1, 1, 1, 1, 1, 1,
       1, 1, 1, 1, 1, 1, 1, 1, 1, 1, 1, 1, 1, 1, 1,
       1, 1, 1, 1, 2, 1, 1, 1, 1, 1, 2, 1, 1, 1, 1,
       1, 1, 1, 2, 1, 1, 1, 1, 1, 1, 1, 2, 1, 1, 1,
       1, 1, 2, 1, 1, 1, 1, 1, 1, 1, 1, 1, 2, 1, 1,
       1, 2, 1, 1, 1, 1, 1, 1, 1, 1, 1, 1, 1, 2, 1,
       3, 1, 1, 1, 1, 1, 1, 3, 1, 1, 1, 1, 1, 1, 3 >>

\* character_value = character_value_closure('FR')
character_value(letter) ==
    CASE letter \in {"E", "A", "I", "N", "O", "R", "S", "T", "U", "L"} -> 1
      [] letter \in {"D", "M", "G"} -> 2
      [] letter \in {"B", "C", "P"} -> 3
      [] letter \in {"F", "H", "V"} -> 4
      [] letter \in {"J", "Q"} -> 8
      [] letter \in {"K", "W", "X", "Y", "Z"} -> 10
      [] letter = " " -> 0

-----------------------------------------------------------------------------
(* scrabble.py : Direction, Position, Line, Word *)

\* Direction.ortho
ortho(direction) == IF direction = "Down" THEN "Accross" ELSE "Down"

\* Position(row, col)
Position(row, col) == [row |-> row, col |-> col]

\* the assertions of Position.__init__
PositionArgOk(row, col) == 0 <= row /\ row <= 14 /\ 0 <= col /\ col <= 14

\* "position.row * 15 + position.col": the index in the flat lists
Flat(position) == position.row * 15 + position.col

\* Position.next_accross: the positions after self, nearest first
next_accross(self) == [i \in 1..(14 - self.col) |-> Position(self.row, self.col + i)]

\* Position.prev_accross: the positions before self, nearest first
prev_accross(self) == [i \in 1..self.col |-> Position(self.row, self.col - i)]

\* Position.next_down
next_down(self) == [i \in 1..(14 - self.row) |-> Position(self.row + i, self.col)]

\* Position.prev_down
prev_down(self) == [i \in 1..self.row |-> Position(self.row - i, self.col)]

\* Position.next
next(self, direction) ==
    IF direction = "Down" THEN next_down(self) ELSE next_accross(self)

\* Position.prev
prev(self, direction) ==
    IF direction = "Down" THEN prev_down(self) ELSE prev_accross(self)

\* Line(direction, line_index)
Line(direction, line_index) == [direction |-> direction, line_index |-> line_index]

\* Line.index_2_pos
index_2_pos(self, index) ==
    IF self.direction = "Accross"
    THEN Position(self.line_index, index)
    ELSE Position(index, self.line_index)

\* Line.pos_2_index
pos_2_index(self, pos) == IF self.direction = "Accross" THEN pos.col ELSE pos.row

\* Line.__iter__ / __next__: the 15 positions of the line
LinePositions(self) == [n \in 1..15 |-> index_2_pos(self, n - 1)]

\* Word(text, direction, origin)
Word(text, direction, origin) ==
    [text |-> text, direction |-> direction, origin |-> origin]

\* the assertions of Word.__init__
WordOnBoard(text, direction, origin) ==
    /\ \A i \in DOMAIN text : text[i] \in UpperAlphabet
    /\ Len(text) >= 1
    /\ IF direction = "Accross"
       THEN 0 < origin.col + Len(text) - 1 /\ origin.col + Len(text) - 1 <= 14
       ELSE 0 < origin.row + Len(text) - 1 /\ origin.row + Len(text) - 1 <= 14

\* Word.positions
positions(self) ==
    [i \in 1..Len(self.text) |->
        IF self.direction = "Accross"
        THEN Position(self.origin.row, self.origin.col + i - 1)
        ELSE Position(self.origin.row + i - 1, self.origin.col)]

\* variant of is_subset: word starts where self starts, runs the same way and
\* its text begins the text of self
is_subset_PrefixOnly(self, word) ==
    /\ word.direction = self.direction
    /\ word.origin = self.origin
    /\ Len(word.text) <= Len(self.text)
    /\ word.text = SubSeq(self.text, 1, Len(word.text))

\* Word.is_subset: every position of word is a position of self
is_subset(self, word) ==
    \A position \in Range(positions(word)) : position \in Range(positions(self))

\* the assertions of Word.intersection_index
IntersectionArgOk(self, other) ==
    /\ self.direction = ortho(other.direction)
    /\ IF self.direction = "Accross"
       THEN /\ self.origin.col <= other.origin.col
            /\ other.origin.col < self.origin.col + Len(self.text)
            /\ other.origin.row + Len(other.text) > self.origin.row
       ELSE /\ self.origin.row <= other.origin.row
            /\ other.origin.row < self.origin.row + Len(self.text)
            /\ other.origin.col + Len(other.text) > self.origin.col

\* Word.intersection_index
intersection_index(self, other) ==
    IF self.direction = "Accross"
    THEN other.origin.col - self.origin.col
    ELSE other.origin.row - self.origin.row

\* AnchorTuple, CrossWord, JokerTuple
AnchorTuple(pos, left_index) == [pos |-> pos, left_index |-> left_index]
CrossWord(word, index_of_main_word_line) ==
    [word |-> word, index_of_main_word_line |-> index_of_main_word_line]
JokerTuple(index, letter) == [index |-> index, letter |-> letter]

-----------------------------------------------------------------------------
(* scrabble.py : Board.  A board B is the record of the five attributes     *)
(* board, board_values, word_set, position_to_words and nb_moves.           *)

\* Board.__init__ with no argument, as a record
EmptyBoard ==
    [board             |-> [i \in 0..224 |-> " "],
     board_values      |-> [i \in 0..224 |-> 0],
     word_set          |-> {},
     position_to_words |-> <<>>,
     nb_moves          |-> 0]

\* Board.get_position_content
get_position_content(B, position) == B.board[Flat(position)]

\* variant of assign_letter: a cell that holds another letter is overwritten
assign_letter_Overwrites(B, letter, position, is_not_joker) ==
    [exc |-> "",
     B |-> [B EXCEPT !.board[Flat(position)] = letter,
                     !.board_values[Flat(position)] =
                         IF is_not_joker THEN character_value(letter) ELSE 0],
     nb_letter_from_rack |-> IF B.board[Flat(position)] = letter THEN 0 ELSE 1]

\* variant of assign_letter: a blank is stored with the value of its letter
assign_letter_ValueOfLetter(B, letter, position, is_not_joker) ==
    IF B.board[Flat(position)] = letter
    THEN [exc |-> "", B |-> B, nb_letter_from_rack |-> 0]
    ELSE IF B.board[Flat(position)] = " "
    THEN [exc |-> "",
          B |-> [B EXCEPT !.board[Flat(position)] = letter,
                          !.board_values[Flat(position)] = character_value(letter)],
          nb_letter_from_rack |-> 1]
    ELSE [exc |-> "BoardCoordinateAlreadyOccupied", B |-> B, nb_letter_from_rack |-> 0]

\* Board._assign_letter
assign_letter(B, letter, position, is_not_joker) ==
    IF B.board[Flat(position)] = letter
    THEN [exc |-> "", B |-> B, nb_letter_from_rack |-> 0]
    ELSE IF B.board[Flat(position)] = " "
    THEN [exc |-> "",
          B |-> [B EXCEPT !.board[Flat(position)] = letter,
                          !.board_values[Flat(position)] =
                              IF is_not_joker THEN character_value(letter) ELSE 0],
          nb_letter_from_rack |-> 1]
    ELSE [exc |-> "BoardCoordinateAlreadyOccupied", B |-> B, nb_letter_from_rack |-> 0]

\* Position.is_filled(board): the position is a key of the index
is_filled(self, B) == self \in DOMAIN B.position_to_words

\* Position.is_empty(board)
is_empty(self, B) == ~is_filled(self, B)

\* variant of RemoveFromIndex: the lists keep the word
RemoveFromIndex_Keeps(p2w, w) == p2w

\* "self.position_to_words[position].remove(w)" for each position of w
RemoveFromIndex(p2w, w) ==
    [position \in DOMAIN p2w |->
        IF position \in Range(positions(w))
        THEN ListRemove(p2w[position], w)
        ELSE p2w[position]]

\* "for w in [wsub for wsub in self.word_set if word.is_subset(wsub)]"
RECURSIVE DiscardSubsets(_, _)
DiscardSubsets(B, subsets) ==
    IF subsets = {} THEN B
    ELSE LET w == CHOOSE x \in subsets : TRUE
         IN  DiscardSubsets(
                 [B EXCEPT !.word_set = @ \ {w},
                           !.position_to_words = RemoveFromIndex(@, w)],
                 subsets \ {w})

\* the removal loop can run: each position of each word to remove is a key
\* of the index and lists the word
DiscardArgOk(B, subsets) ==
    \A w \in subsets : \A position \in Range(positions(w)) :
        /\ position \in DOMAIN B.position_to_words
        /\ w \in Range(B.position_to_words[position])

\* "try: self.position_to_words[position] ... finally: ...append(word)"
IndexAppend(p2w, position, word) ==
    IF position \in DOMAIN p2w
    THEN [p2w EXCEPT ![position] = Append(@, word)]
    ELSE (position :> <<word>>) @@ p2w

\* "for i, (letter, position) in enumerate(zip(word, word.positions()))" of
\* put_on_board, from letter i on
RECURSIVE PutLetters(_, _, _, _, _)
PutLetters(B, word, joker_index_set, i, letter_from_rack_list) ==
    IF i = Len(word.text)
    THEN [exc |-> "", B |-> B, letter_from_rack_list |-> letter_from_rack_list]
    ELSE LET letter == word.text[i + 1]
             position == positions(word)[i + 1]
             is_not_joker == i \notin joker_index_set
             assigned == assign_letter(B, letter, position, is_not_joker)
         IN  IF assigned.exc # ""
             THEN [exc |-> assigned.exc, B |-> B,
                   letter_from_rack_list |-> letter_from_rack_list]
             ELSE PutLetters(
                      [assigned.B EXCEPT !.position_to_words =
                                            IndexAppend(@, position, word)],
                      word, joker_index_set, i + 1,
                      IF assigned.nb_letter_from_rack = 1
                      THEN Append(letter_from_rack_list, letter)
                      ELSE letter_from_rack_list)

\* Board.put_on_board
put_on_board(B, word, is_main_word, joker_set) ==
    LET subsets == {wsub \in B.word_set : is_subset(word, wsub)}
    IN  IF ~DiscardArgOk(B, subsets)
        THEN [exc |-> "LookupError", B |-> B, letter_from_rack_list |-> <<>>]
        ELSE LET B1 == DiscardSubsets(B, subsets)
                 joker_index_set == {joker_tuple.index : joker_tuple \in joker_set}
                 put == PutLetters(B1, word, joker_index_set, 0, <<>>)
             IN  IF put.exc # "" THEN put
                 ELSE [exc |-> "",
                       B |-> [put.B EXCEPT !.word_set = @ \cup {word},
                                           !.nb_moves = IF is_main_word THEN @ + 1 ELSE @],
                       letter_from_rack_list |-> put.letter_from_rack_list]

\* variant of NewTileValue: a blank scores as the letter it stands for
NewTileValue_BlankCounts(letter, pos, is_joker) ==
    character_value(letter) * LETTER_MULTIPLIER_SET[Flat(pos) + 1]

\* the points of a tile laid on the empty cell pos: "if i not in
\* joker_index_set: value += character_value(letter) *
\* LETTER_MULTIPLIER_SET[...]", and the same at the crossing of a cross word
NewTileValue(letter, pos, is_joker) ==
    IF is_joker THEN 0
    ELSE character_value(letter) * LETTER_MULTIPLIER_SET[Flat(pos) + 1]

\* "for i, (letter, pos) in enumerate(zip(word, word.positions()))" of
\* compute_word_value, from letter i on, then the multiplier and the bonus
RECURSIVE WordValueLoop(_, _, _, _, _, _, _)
WordValueLoop(B, word, joker_index_set, i, value, word_coeff, nb_letter_not_yet_on_board) ==
    IF i = Len(word.text)
    THEN value * word_coeff + (IF nb_letter_not_yet_on_board >= 7 THEN 50 ELSE 0)
    ELSE LET letter == word.text[i + 1]
             pos == positions(word)[i + 1]
         IN  IF get_position_content(B, pos) # " "
             THEN WordValueLoop(B, word, joker_index_set, i + 1,
                                value + B.board_values[Flat(pos)],
                                word_coeff, nb_letter_not_yet_on_board - 1)
             ELSE WordValueLoop(B, word, joker_index_set, i + 1,
                                value + NewTileValue(letter, pos,
                                                     i \in joker_index_set),
                                IF WORD_MULTIPLIER_SET[Flat(pos) + 1] > 1
                                THEN word_coeff * WORD_MULTIPLIER_SET[Flat(pos) + 1]
                                ELSE word_coeff,
                                nb_letter_not_yet_on_board)

\* Board.compute_word_value
compute_word_value(B, word, joker_set) ==
    WordValueLoop(B, word, {joker_tuple.index : joker_tuple \in joker_set},
                  0, 0, 1, Len(word.text))

\* the loop of compute_cross_word_value from letter i on, then the multiplier
RECURSIVE CrossWordValueLoop(_, _, _, _, _, _)
CrossWordValueLoop(B, cross_word, joker_at_crossing, i, value, word_coeff) ==
    IF i = Len(cross_word.word.text) THEN value * word_coeff
    ELSE LET letter == cross_word.word.text[i + 1]
             pos == positions(cross_word.word)[i + 1]
         IN  IF i = cross_word.index_of_main_word_line
             THEN CrossWordValueLoop(B, cross_word, joker_at_crossing, i + 1,
                      value + NewTileValue(letter, pos, joker_at_crossing),
                      IF WORD_MULTIPLIER_SET[Flat(pos) + 1] > word_coeff
                      THEN word_coeff * WORD_MULTIPLIER_SET[Flat(pos) + 1]
                      ELSE word_coeff)
             ELSE CrossWordValueLoop(B, cross_word, joker_at_crossing, i + 1,
                      value + B.board_values[Flat(pos)], word_coeff)

\* Board.compute_cross_word_value
compute_cross_word_value(B, cross_word, joker_at_crossing) ==
    CrossWordValueLoop(B, cross_word, joker_at_crossing, 0, 0, 1)

-----------------------------------------------------------------------------
(* scrabble.py : Solution *)

\* "for cross_word in self.cross_word_list: self.value += ..." for the cross
\* words lo..hi: the sum of their values
RECURSIVE CrossWordsValue(_, _, _, _, _, _)
CrossWordsValue(B, main_word, cross_word_list, joker_index_list, lo, hi) ==
    IF lo > hi THEN 0
    ELSE IF lo = hi
    THEN LET cross_word == cross_word_list[lo]
             joker_at_crossing ==
                 intersection_index(main_word, cross_word.word) \in joker_index_list
         IN  compute_cross_word_value(B, cross_word, joker_at_crossing)
    ELSE CrossWordsValue(B, main_word, cross_word_list, joker_index_list,
                         lo, (lo + hi) \div 2)
         + CrossWordsValue(B, main_word, cross_word_list, joker_index_list,
                           (lo + hi) \div 2 + 1, hi)

\* the assertions met by Solution.__init__: its own and those of
\* Word.intersection_index
SolutionArgOk(main_word, cross_word_list) ==
    \A k \in DOMAIN cross_word_list :
        /\ cross_word_list[k].index_of_main_word_line < Len(cross_word_list[k].word.text)
        /\ IntersectionArgOk(main_word, cross_word_list[k].word)

\* Solution(board, main_word, cross_word_list, joker_set)
Solution(B, main_word, cross_word_list, joker_set) ==
    LET value == compute_word_value(B, main_word, joker_set)
                 + CrossWordsValue(B, main_word, cross_word_list,
                                   {joker_tuple.index : joker_tuple \in joker_set},
                                   1, Len(cross_word_list))
    IN  [main_word       |-> main_word,
         cross_word_list |-> cross_word_list,
         joker_set       |-> joker_set,
         value           |-> value,
         score           |-> value]

-----------------------------------------------------------------------------
(* scrabble.py : the mask of a line *)

\* Board.adjacent_letters_2_line
adjacent_letters_2_line(B, line) ==
    LET lower == IF line.direction = "Accross" THEN <<-1, 0>> ELSE <<0, -1>>
        higher == IF line.direction = "Accross" THEN <<1, 0>> ELSE <<0, 1>>
        tested(step) ==
            [n \in 1..15 |-> [row |-> LinePositions(line)[n].row + step[1],
                              col |-> LinePositions(line)[n].col + step[2]]]
        filled(step) == SelectSeq(tested(step), LAMBDA p : B.board[Flat(p)] # " ")
    IN  [side_lower  |-> IF line.line_index = 0 THEN <<>> ELSE filled(lower),
         side_higher |-> IF line.line_index = 14 THEN <<>> ELSE filled(higher)]

\* the mask of build_mask_for_line before the cross words: the letter of a
\* filled cell, {} for an empty one
MaskFromBoard(B, line) ==
    [n \in 1..15 |->
        LET item == get_position_content(B, LinePositions(line)[n])
        IN  IF item = " " THEN MaskItemDict(<<>>) ELSE MaskItemStr(item)]

\* "for position in adjacent_position.prev(...)/next(...)": the number of
\* positions taken before the break
RECURSIVE ScanCount(_, _, _, _)
ScanCount(B, line, scanned, k) ==
    IF k = Len(scanned) THEN k
    ELSE IF \/ get_position_content(B, scanned[k + 1]) # " "
            \/ scanned[k + 1] \in Range(LinePositions(line))
         THEN ScanCount(B, line, scanned, k + 1)
         ELSE k

\* position_list of build_mask_for_line for one adjacent position
SpanPositions(B, line, adjacent_position) ==
    LET backwards == prev(adjacent_position, ortho(line.direction))
        forwards == next(adjacent_position, ortho(line.direction))
        nb == ScanCount(B, line, backwards, 0)
        nf == ScanCount(B, line, forwards, 0)
    IN  [k \in 1..nb |-> backwards[nb + 1 - k]]
        \o <<adjacent_position>>
        \o SubSeq(forwards, 1, nf)

\* variant of CrossMaskItem: an empty word_dict is kept as it is
CrossMaskItem_KeepsEmpty(word_dict) == MaskItemDict(word_dict)

\* "mask[mask_index] = MaskItem(word_dict) if word_dict else MaskItem(None)"
CrossMaskItem(word_dict) ==
    IF DOMAIN word_dict # {} THEN MaskItemDict(word_dict) ELSE MaskItemNone

\* the body of "for adjacent_position in flatten_adjacent_positions" of
\* build_mask_for_line for one adjacent position
MaskBody(B, T, line, adjacent_position, mask) ==
    LET position_list == SpanPositions(B, line, adjacent_position)
        string == [k \in DOMAIN position_list |->
                      get_position_content(B, position_list[k])]
        mask_index == IF line.direction = "Accross"
                      THEN adjacent_position.col
                      ELSE adjacent_position.row
    IN  IF " " \notin Range(string) THEN [exc |-> "", value |-> mask]
        ELSE LET word_dict == possible_word_set_from_string(T, string)
             IN  IF word_dict.exc # ""
                 THEN [exc |-> word_dict.exc, value |-> mask]
                 ELSE [exc |-> "",
                       value |-> [mask EXCEPT ![mask_index + 1] =
                                                 CrossMaskItem(word_dict.value)]]

\* "for adjacent_position in flatten_adjacent_positions" for the adjacent
\* positions lo..hi: the first half of them, then, unless an exception has
\* ended the loop, the second half on the mask the first leaves
RECURSIVE MaskLoop(_, _, _, _, _, _, _)
MaskLoop(B, T, line, adjacent_positions, lo, hi, mask) ==
    IF lo > hi THEN [exc |-> "", value |-> mask]
    ELSE IF lo = hi THEN MaskBody(B, T, line, adjacent_positions[lo], mask)
    ELSE LET first == MaskLoop(B, T, line, adjacent_positions,
                               lo, (lo + hi) \div 2, mask)
         IN  IF first.exc # "" THEN first
             ELSE MaskLoop(B, T, line, adjacent_positions,
                           (lo + hi) \div 2 + 1, hi, first.value)

\* Board.build_mask_for_line
build_mask_for_line(B, T, line) ==
    LET adjacent_positions == adjacent_letters_2_line(B, line)
        flatten_adjacent_positions ==
            adjacent_positions.side_lower \o adjacent_positions.side_higher
    IN  MaskLoop(B, T, line, flatten_adjacent_positions,
                 1, Len(flatten_adjacent_positions), MaskFromBoard(B, line))

-----------------------------------------------------------------------------
(* scrabble.py : anchors and left masks *)

\* Board.get_anchor_positions_from_line
get_anchor_positions_from_line(line, mask) ==
    LET anchor_indices ==
            SelectSeq([n \in 1..15 |-> n - 1],
                      LAMBDA i : /\ i # 14
                                 /\ has_no_letter(mask[i + 1])
                                 /\ has_letter(mask[i + 2]))
    IN  [k \in DOMAIN anchor_indices |-> index_2_pos(line, anchor_indices[k])]

\* variant of StartLeftMaskIndex: the left mask is not limited to 6 cells
RECURSIVE StartLeftMaskIndex_NoLimit(_, _)
StartLeftMaskIndex_NoLimit(sub_mask, i) ==
    LET item == sub_mask[Len(sub_mask) - i]
    IN  IF has_letter(item) \/ is_not_usable(item) THEN Len(sub_mask) - i + 1
        ELSE IF i = Len(sub_mask) - 1 THEN 0
        ELSE StartLeftMaskIndex_NoLimit(sub_mask, i + 1)

\* "for i, item in enumerate(reversed(sub_mask))": start_left_mask_index
RECURSIVE StartLeftMaskIndex(_, _)
StartLeftMaskIndex(sub_mask, i) ==
    LET item == sub_mask[Len(sub_mask) - i]
    IN  IF i = 5 /\ is_usable(item) THEN Len(sub_mask) - 6
        ELSE IF has_letter(item) \/ is_not_usable(item) THEN Len(sub_mask) - i + 1
        ELSE IF i = Len(sub_mask) - 1 THEN 0
        ELSE StartLeftMaskIndex(sub_mask, i + 1)

\* variant of AnchorTuplesFor: after a letter the scan starts on the anchor
AnchorTuplesFor_OnAnchor(line, mask, anchor_position) ==
    LET anchor_index == pos_2_index(line, anchor_position)
        sub_mask == SubSeq(mask, 1, anchor_index)
    IN  IF is_not_usable(mask[anchor_index + 1])
        THEN <<AnchorTuple(anchor_position, anchor_index + 1)>>
        ELSE IF Len(sub_mask) = 0 THEN <<>>
        ELSE IF has_letter(sub_mask[Len(sub_mask)])
        THEN <<AnchorTuple(anchor_position, anchor_index)>>
        ELSE IF is_usable(sub_mask[Len(sub_mask)])
        THEN LET start_left_mask_index == StartLeftMaskIndex(sub_mask, 0)
             IN  [i \in 1..(anchor_index + 2 - start_left_mask_index) |->
                     AnchorTuple(anchor_position, start_left_mask_index + i - 1)]
        ELSE <<>>

\* the body of "for anchor_position in anchor_position_list": the tuples
\* appended for one anchor
AnchorTuplesFor(line, mask, anchor_position) ==
    LET anchor_index == pos_2_index(line, anchor_position)
        sub_mask == SubSeq(mask, 1, anchor_index)
    IN  IF is_not_usable(mask[anchor_index + 1])
        THEN <<AnchorTuple(anchor_position, anchor_index + 1)>>
        ELSE IF Len(sub_mask) = 0 THEN <<>>
        ELSE IF has_letter(sub_mask[Len(sub_mask)])
        THEN <<AnchorTuple(anchor_position, anchor_index + 1)>>
        ELSE IF is_usable(sub_mask[Len(sub_mask)])
        THEN LET start_left_mask_index == StartLeftMaskIndex(sub_mask, 0)
             IN  [i \in 1..(anchor_index + 2 - start_left_mask_index) |->
                     AnchorTuple(anchor_position, start_left_mask_index + i - 1)]
        ELSE <<>>

\* "for anchor_position in anchor_position_list" for the anchors lo..hi
RECURSIVE AnchorTuplesLoop(_, _, _, _, _)
AnchorTuplesLoop(line, mask, anchor_position_list, lo, hi) ==
    IF lo > hi THEN <<>>
    ELSE IF lo = hi THEN AnchorTuplesFor(line, mask, anchor_position_list[lo])
    ELSE AnchorTuplesLoop(line, mask, anchor_position_list, lo, (lo + hi) \div 2)
         \o AnchorTuplesLoop(line, mask, anchor_position_list, (lo + hi) \div 2 + 1, hi)

\* Board.build_left_masks_list
build_left_masks_list(line, mask) ==
    LET anchor_position_list == get_anchor_positions_from_line(line, mask)
    IN  (IF has_letter(mask[1]) THEN <<AnchorTuple(index_2_pos(line, 0), 0)>> ELSE <<>>)
        \o AnchorTuplesLoop(line, mask, anchor_position_list,
                            1, Len(anchor_position_list))

-----------------------------------------------------------------------------
(* scrabble.py : the move generator *)

Reverse(l) == [k \in 1..Len(l) |-> l[Len(l) + 1 - k]]

\* the least number of a set of numbers
MinOf(S) == CHOOSE m \in S : \A x \in S : m <= x

\* list.append / list.extend over a loop: parts is the set of the pairs
\* <<k, list>> of what pass k of the loop adds; the lists of the passes
\* lo..hi are joined in the order of the passes
RECURSIVE Join(_, _, _)
Join(parts, lo, hi) ==
    IF lo > hi THEN <<>>
    ELSE IF lo = hi THEN (CHOOSE p \in parts : p[1] = lo)[2]
    ELSE Join(parts, lo, (lo + hi) \div 2) \o Join(parts, (lo + hi) \div 2 + 1, hi)

\* "for word in potential_words": the order in which the Python set hands
\* out its words.  It follows the hashes of the strings, which change with
\* the hash seed of the process: under seed 0 the words come in the order
\* of word_list, under seed 1 in the opposite order.
SetIteration(potential_words, word_list, seed) ==
    SelectSeq(IF seed = 0 THEN word_list ELSE Reverse(word_list),
              LAMBDA w : w \in potential_words)

\* the "while mask_2_scan[min_length].has_letter and ..." loop
RECURSIVE MinLength(_, _)
MinLength(mask_2_scan, min_length) ==
    IF has_letter(mask_2_scan[min_length + 1]) /\ min_length < Len(mask_2_scan) - 1
    THEN MinLength(mask_2_scan, min_length + 1)
    ELSE min_length

\* word_pattern after the first two loops of the joker detection: "board"
\* for a letter of the board, "rack" for a letter tile taken from the copy
\* of the rack, " " otherwise
RECURSIVE WordPattern(_, _, _, _, _)
WordPattern(word, mask_2_scan, tile_list_copy, i, word_pattern) ==
    IF i = Len(word) THEN word_pattern
    ELSE IF has_letter(mask_2_scan[i + 1])
    THEN WordPattern(word, mask_2_scan, tile_list_copy, i + 1,
                     Append(word_pattern, "board"))
    ELSE IF word[i + 1] \in Range(tile_list_copy)
    THEN WordPattern(word, mask_2_scan, ListRemove(tile_list_copy, word[i + 1]), i + 1,
                     Append(word_pattern, "rack"))
    ELSE WordPattern(word, mask_2_scan, tile_list_copy, i + 1,
                     Append(word_pattern, " "))

\* a loop that extends a list pass after pass and that an exception ends:
\* found is the set of the pairs <<k, [exc, value]>> of the passes 1..n.  The
\* lists of the passes in their order, or the first exception.
Collect(found, n) ==
    LET raised == {p[1] : p \in {q \in found : q[2].exc # ""}}
    IN  IF raised # {}
        THEN [exc |-> (CHOOSE p \in found : p[1] = MinOf(raised))[2].exc, value |-> <<>>]
        ELSE [exc |-> "", value |-> Join({<<p[1], p[2].value>> : p \in found}, 1, n)]

\* variant of JokerSetOf: every letter laid from the rack is taken as a blank
JokerSetOf_AllLaid(word, mask_2_scan, tile_list) ==
    {JokerTuple(i - 1, word[i]) : i \in {k \in 1..Len(word) : ~has_letter(mask_2_scan[k])}}

\* joker_set: "if pattern_item == ' ': joker_set.add(JokerTuple(i, letter_word))"
JokerSetOf(word, mask_2_scan, tile_list) ==
    LET word_pattern == WordPattern(word, mask_2_scan, tile_list, 0, <<>>)
    IN  {JokerTuple(i - 1, word[i]) : i \in {k \in 1..Len(word) : word_pattern[k] = " "}}

\* variant of CrossWordOrigin: the main line taken as the first cell
CrossWordOrigin_AtLine(line, left_index, i, index_of_main_word_line) ==
    IF line.direction = "Accross"
    THEN [row |-> line.line_index, col |-> left_index + i]
    ELSE [row |-> left_index + i, col |-> line.line_index]

\* "row = line.line_index - index_of_main_word_line; col = left_index + i"
\* and the Down counterpart
CrossWordOrigin(line, left_index, i, index_of_main_word_line) ==
    IF line.direction = "Accross"
    THEN [row |-> line.line_index - index_of_main_word_line, col |-> left_index + i]
    ELSE [row |-> left_index + i, col |-> line.line_index - index_of_main_word_line]

\* cross_word_list of one word: "for i, (letter, mask_item) in
\* enumerate(zip(word, mask_2_scan))", a KeyError being passed over
CrossWordList(line, left_index, word, mask_2_scan) ==
    LET crossing == SelectSeq([n \in 1..Len(word) |-> n - 1],
                              LAMBDA i : /\ is_cross_word(mask_2_scan[i + 1])
                                         /\ word[i + 1] \in DOMAIN mask_2_scan[i + 1].data)
    IN  [k \in DOMAIN crossing |->
            LET i == crossing[k]
                word_couple == mask_2_scan[i + 1].data[word[i + 1]]
            IN  CrossWord(Word(word_couple.word_str, ortho(line.direction),
                               CrossWordOrigin(line, left_index, i, word_couple.index)),
                          word_couple.index)]

\* the assertions met while the cross words of one word are built
CrossWordListArgOk(cross_word_list) ==
    \A k \in DOMAIN cross_word_list :
        /\ PositionArgOk(cross_word_list[k].word.origin.row,
                         cross_word_list[k].word.origin.col)
        /\ WordOnBoard(cross_word_list[k].word.text, cross_word_list[k].word.direction,
                       cross_word_list[k].word.origin)

\* variant of KeepsWord: the cell after the word is not looked at
KeepsWord_Always(mask, left_index, word) == TRUE

\* "keep only words which are followed by a blank position or ending at
\* edge of board"
KeepsWord(mask, left_index, word) ==
    \/ left_index + Len(word) = 15
    \/ is_usable(mask[left_index + Len(word) + 1])

\* variant of MainWordOrigin: the cell after the start of the mask
MainWordOrigin_NextCell(line, left_index) == index_2_pos(line, left_index + 1)

\* "Word(word, line.direction, line.index_2_pos(anchor_item.left_index))":
\* the origin of the main word
MainWordOrigin(line, left_index) == index_2_pos(line, left_index)

\* the body of "for word in potential_words" for one word: "break" when the
\* word is followed by a letter or a dead cell, "continue" for a word already
\* on the board, else the solution of the word joins the list
WordBody(B, line, mask, anchor_item, cross_word, tile_list, word) ==
    LET mask_2_scan == SubSeq(mask, anchor_item.left_index + 1, 15)
    IN  IF ~KeepsWord(mask, anchor_item.left_index, word)
        THEN [exc |-> "", break |-> TRUE, value |-> <<>>]
        ELSE LET origin == MainWordOrigin(line, anchor_item.left_index)
                 main_word == Word(word, line.direction, origin)
                 cross_word_list ==
                     IF cross_word
                     THEN CrossWordList(line, anchor_item.left_index, word, mask_2_scan)
                     ELSE <<>>
                 joker_set == JokerSetOf(word, mask_2_scan, tile_list)
             IN  IF \/ ~WordOnBoard(word, line.direction, origin)
                    \/ ~CrossWordListArgOk(cross_word_list)
                 THEN [exc |-> "AssertionError", break |-> FALSE, value |-> <<>>]
                 ELSE IF main_word \in B.word_set
                 THEN [exc |-> "", break |-> FALSE, value |-> <<>>]
                 ELSE IF ~SolutionArgOk(main_word, cross_word_list)
                 THEN [exc |-> "AssertionError", break |-> FALSE, value |-> <<>>]
                 ELSE [exc |-> "", break |-> FALSE,
                       value |-> <<Solution(B, main_word, cross_word_list, joker_set)>>]

\* the loop "for word in potential_words" over n words, found being the set
\* of the pairs <<w, WordBody of word w>>: the solutions of the words met
\* before the first break or exception
CollectUntilBreak(found, n) ==
    LET ended == {p[1] : p \in {q \in found : q[2].break \/ q[2].exc # ""}}
    IN  IF ended = {}
        THEN [exc |-> "", value |-> Join({<<p[1], p[2].value>> : p \in found}, 1, n)]
        ELSE LET last == CHOOSE p \in found : p[1] = MinOf(ended)
             IN  IF last[2].exc # "" THEN [exc |-> last[2].exc, value |-> <<>>]
                 ELSE [exc |-> "",
                       value |-> Join({<<p[1], p[2].value>> : p \in found},
                                      1, last[1] - 1)]

\* "for word in potential_words" of get_potential_solutions_for_line
WordsLoop(B, line, mask, anchor_item, cross_word, tile_list, words) ==
    CollectUntilBreak({<<w, WordBody(B, line, mask, anchor_item, cross_word, tile_list,
                                     words[w])>> : w \in DOMAIN words},
                      Len(words))

\* the body of "for anchor_item in anchor_tuple_list_to_be_treated" once the
\* lexicon has answered: cross_word, then the loop over the words
AnchorWords(B, line, mask, anchor_item, mask_2_scan, tile_list, order, potential_words) ==
    IF potential_words.exc # ""
    THEN [exc |-> potential_words.exc, value |-> <<>>]
    ELSE WordsLoop(B, line, mask, anchor_item,
                   /\ potential_words.value # {}
                   /\ \E n \in DOMAIN mask_2_scan : is_cross_word(mask_2_scan[n]),
                   tile_list,
                   SetIteration(potential_words.value, order.word_list, order.seed))

\* the body of "for anchor_item in anchor_tuple_list_to_be_treated" once
\* mask_2_scan is cut: min_length, then the search of the lexicon
AnchorScan(B, T, line, mask, anchor_item, mask_2_scan, tile_list, order) ==
    AnchorWords(B, line, mask, anchor_item, mask_2_scan, tile_list, order,
                possible_words_for_mask_with_rack(
                    T, mask_2_scan, tile_list,
                    MinLength(mask_2_scan,
                              pos_2_index(line, anchor_item.pos)
                              - anchor_item.left_index + 1)))

\* the body of "for anchor_item in anchor_tuple_list_to_be_treated" for one
\* anchor tuple: the solutions it adds to the list
AnchorBody(B, T, line, mask, anchor_item, tile_list, order) ==
    AnchorScan(B, T, line, mask, anchor_item,
               SubSeq(mask, anchor_item.left_index + 1, 15), tile_list, order)

\* "for anchor_item in anchor_tuple_list_to_be_treated": the solutions of
\* the anchor tuples in their order, or the first exception
AnchorsLoop(B, T, line, mask, anchor_tuple_list, tile_list, order) ==
    Collect({<<a, AnchorBody(B, T, line, mask, anchor_tuple_list[a], tile_list,
                             order)>> : a \in DOMAIN anchor_tuple_list},
            Len(anchor_tuple_list))

\* get_potential_solutions_for_line once the mask of the line is built (or
\* its building has raised)
SolutionsForMask(B, T, line, mask, tile_list, order) ==
    IF mask.exc # "" THEN [exc |-> mask.exc, value |-> <<>>]
    ELSE AnchorsLoop(B, T, line, mask.value, build_left_masks_list(line, mask.value),
                     tile_list, order)

\* Board.get_potential_solutions_for_line
get_potential_solutions_for_line(B, T, line, tile_list, order) ==
    SolutionsForMask(B, T, line, build_mask_for_line(B, T, line), tile_list, order)

\* variant of FirstPlayBody: the first word is laid down the board
FirstPlayBody_Down(B, mask, tile_list, w) ==
    IF ~WordOnBoard(w, "Down", Position(7, 7))
    THEN [exc |-> "AssertionError", value |-> <<>>]
    ELSE [exc |-> "",
          value |-> <<Solution(B, Word(w, "Down", Position(7, 7)), <<>>,
                               JokerSetOf(w, mask, tile_list))>>]

\* the body of "for w in potential_words" of
\* get_potential_solutions_for_first_play for one word; no item of its mask
\* is a str, so that no letter is marked "board"
FirstPlayBody(B, mask, tile_list, w) ==
    IF ~WordOnBoard(w, "Accross", Position(7, 7))
    THEN [exc |-> "AssertionError", value |-> <<>>]
    ELSE [exc |-> "",
          value |-> <<Solution(B, Word(w, "Accross", Position(7, 7)), <<>>,
                               JokerSetOf(w, mask, tile_list))>>]

\* "for w in potential_words": the solutions of the words in the order of
\* the iteration, or the first exception
FirstPlayLoop(B, mask, tile_list, words) ==
    Collect({<<w, FirstPlayBody(B, mask, tile_list, words[w])>> : w \in DOMAIN words},
            Len(words))

\* "mask = Mask([MaskItem({}) for _ in range(7)])"
FirstPlayMask == [n \in 1..7 |-> MaskItemDict(<<>>)]

\* get_potential_solutions_for_first_play once the lexicon has answered
FirstPlayWords(B, mask, tile_list, order, potential_words) ==
    IF potential_words.exc # ""
    THEN [exc |-> potential_words.exc, value |-> <<>>]
    ELSE FirstPlayLoop(B, mask, tile_list,
                       SetIteration(potential_words.value, order.word_list, order.seed))

\* Board.get_potential_solutions_for_first_play
get_potential_solutions_for_first_play(B, T, tile_list, order) ==
    IF Len(tile_list) # 7 THEN [exc |-> "AssertionError", value |-> <<>>]
    ELSE FirstPlayWords(B, FirstPlayMask, tile_list, order,
                        possible_words_for_mask_with_rack(T, FirstPlayMask, tile_list, 1))

\* "for i in range(15) for direction in [Direction('Accross'),
\* Direction('Down')]": line number k of the chain, k in 1..30
ChainLine(k) == Line(IF k % 2 = 1 THEN "Accross" ELSE "Down", (k - 1) \div 2)

\* itertools.chain.from_iterable over the 30 lines: the solutions of the
\* lines in the order of the chain, or the first exception
LinesLoop(B, T, tile_list, order) ==
    Collect({<<k, get_potential_solutions_for_line(B, T, ChainLine(k), tile_list,
                                                   order)>> : k \in 1..30},
            30)

\* variant of KeyLess: the greater score first
KeyLess_Descending(a, b) == a.score > b.score

\* "a < b" for the sort keys (s, s.main_word.text): Solution.__eq__ and
\* Solution.__gt__ compare the scores, str.__lt__ the texts
KeyLess(a, b) ==
    IF a.score = b.score
    THEN StrLess(a.main_word.text, b.main_word.text)
    ELSE b.score > a.score

\* list.sort(key=...): the sort is stable, a solution comes before another
\* when its key is less, or when neither key is less and it is earlier in
\* the list
sort(solution_list) ==
    LET n == Len(solution_list)
        comes_before(j, i) ==
            \/ KeyLess(solution_list[j], solution_list[i])
            \/ /\ ~KeyLess(solution_list[i], solution_list[j])
               /\ j < i
        place == {<<i, 1 + Cardinality({j \in 1..n : comes_before(j, i)})>> : i \in 1..n}
    IN  [p \in 1..n |-> solution_list[(CHOOSE q \in place : q[2] = p)[1]]]

\* "if solution_list: solution_list.sort(...) else: return False"
SortedOrFalse(solution_list) ==
    IF solution_list.exc # ""
    THEN [exc |-> solution_list.exc, found |-> FALSE, solution_list |-> <<>>]
    ELSE IF Len(solution_list.value) # 0
    THEN [exc |-> "", found |-> TRUE, solution_list |-> sort(solution_list.value)]
    ELSE [exc |-> "", found |-> FALSE, solution_list |-> <<>>]

\* Board.get_sorted_list_of_solutions_for_rack.  found is FALSE and
\* solution_list empty when the call returns False.
get_sorted_list_of_solutions_for_rack(B, T, tile_list, order) ==
    IF Len(tile_list) = 0
    THEN [exc |-> "AssertionError", found |-> FALSE, solution_list |-> <<>>]
    ELSE SortedOrFalse(IF B.nb_moves = 0
                       THEN get_potential_solutions_for_first_play(B, T, tile_list, order)
                       ELSE LinesLoop(B, T, tile_list, order))

\* variant of LastOf: the first solution of the list
LastOf_First(solution_list) == <<solution_list[1]>>

\* "return solution_list[-1]"
LastOf(solution_list) == <<solution_list[Len(solution_list)]>>

\* the end of get_best_solution_for_rack: the last solution of the list, or
\* False.  The solution is handed over as a list of one item, False as the
\* empty list.
BestOf(sorted) ==
    IF sorted.found THEN LastOf(sorted.solution_list) ELSE <<>>

\* Board.get_best_solution_for_rack
get_best_solution_for_rack(B, T, tile_list, order) ==
    LET sorted == get_sorted_list_of_solutions_for_rack(B, T, tile_list, order)
    IN  [exc |-> sorted.exc, solution |-> BestOf(sorted)]

-----------------------------------------------------------------------------
(* scrabble.py : Game._play *)

\* "for joker_tuple in solution.joker_set: letter_from_rack_list.remove(
\* joker_tuple.letter); letter_from_rack_list.append(' ')"
RECURSIVE JokersBack(_, _)
JokersBack(letter_from_rack_list, joker_set) ==
    IF joker_set = {} THEN [exc |-> "", value |-> letter_from_rack_list]
    ELSE LET joker_tuple == CHOOSE j \in joker_set : TRUE
         IN  IF joker_tuple.letter \notin Range(letter_from_rack_list)
             THEN [exc |-> "ValueError", value |-> letter_from_rack_list]
             ELSE JokersBack(Append(ListRemove(letter_from_rack_list, joker_tuple.letter),
                                    " "),
                             joker_set \ {joker_tuple})

\* "for cross_word in solution.cross_word_list:
\* self.board.put_on_board(cross_word.word, False)" from item k on
RECURSIVE PutCrossWords(_, _, _)
PutCrossWords(B, cross_word_list, k) ==
    IF k > Len(cross_word_list) THEN [exc |-> "", B |-> B]
    ELSE LET put == put_on_board(B, cross_word_list[k].word, FALSE, {})
         IN  IF put.exc # "" THEN [exc |-> put.exc, B |-> put.B]
             ELSE PutCrossWords(put.B, cross_word_list, k + 1)

\* Game._play, as far as the board goes
play_solution(B, solution) ==
    LET main == put_on_board(B, solution.main_word, TRUE, solution.joker_set)
    IN  IF main.exc # ""
        THEN [exc |-> main.exc, B |-> main.B, letter_from_rack_list |-> <<>>]
        ELSE LET letters == JokersBack(main.letter_from_rack_list, solution.joker_set)
             IN  IF letters.exc # ""
                 THEN [exc |-> letters.exc, B |-> main.B, letter_from_rack_list |-> <<>>]
                 ELSE LET crossed == PutCrossWords(main.B, solution.cross_word_list, 1)
                      IN  [exc |-> crossed.exc, B |-> crossed.B,
                           letter_from_rack_list |-> letters.value]

-----------------------------------------------------------------------------
(* Specification SpecGen: racks are handed to the move generator of a game  *)
(* board, and generated solutions are played on it                          *)

\* the board of the game as a record
BoardRec ==
    [board             |-> board,
     board_values      |-> board_values,
     word_set          |-> word_set,
     position_to_words |-> position_to_words,
     nb_moves          |-> nb_moves]

\* the board of the game becomes B
SetBoard(B) ==
    /\ board' = B.board
    /\ board_values' = B.board_values
    /\ word_set' = B.word_set
    /\ position_to_words' = B.position_to_words
    /\ nb_moves' = B.nb_moves

\* the word list loaded into the lexicon of the game; its longest word makes
\* the lexicon as deep as a line is long
GenWordList ==
    << <<"L", "E">>, <<"L", "E", "S">>, <<"E", "T">>, <<"N", "E">>,
       <<"N", "E", "T">>, <<"T", "E">>, <<"T", "E", "S">>, <<"E", "N">>,
       <<"E", "N", "T", "E", "T", "E", "S">>,
       <<"A", "N", "T", "I", "C", "O", "N", "F", "O", "R", "M", "I", "S", "M", "E">> >>

\* the racks drawn: one that spells a seven-letter word with its blank, one
\* with two blanks, one that spells no word
GenRacks ==
    { <<"E", "N", "T", "E", " ", "E", "S">>,
      <<"L", " ", " ", "T", "A", "A", "A">>,
      <<"A", "A", "A", "A", "A", "A", "A">> }

\* the hash seeds of the processes that run the generator
HashSeeds == {0, 1}

InitGen ==
    /\ trie = LoadWords(TrieInit, GenWordList)
    /\ loaded = GenWordList
    /\ query = [op |-> "none"]
    /\ BoardInit
    /\ GenIdle

\* the record of one run of the generator: what
\* get_sorted_list_of_solutions_for_rack returns, and the solution
\* get_best_solution_for_rack draws from it
GenRecord(tile_list, seed, sorted) ==
    [op |-> "generate", tile_list |-> tile_list, seed |-> seed,
     exc |-> sorted.exc, found |-> sorted.found,
     solution_list |-> sorted.solution_list,
     best |-> BestOf(sorted)]

\* one run of the generator on the board of the game
GenRun(tile_list, seed) ==
    GenRecord(tile_list, seed,
              get_sorted_list_of_solutions_for_rack(
                  BoardRec, trie, tile_list, [word_list |-> loaded, seed |-> seed]))

\* board.get_sorted_list_of_solutions_for_rack(rack) and
\* board.get_best_solution_for_rack(rack) for a rack just drawn
Generate(tile_list, seed) ==
    /\ gen.op = "none"
    /\ gen' = GenRun(tile_list, seed)
    /\ rack' = tile_list
    /\ UNCHANGED <<lexVars, boardVars, prev_gen, play, gameVars>>

\* the same call in a process that has another hash seed
GenerateAgain(seed) ==
    /\ gen.op = "generate"
    /\ prev_gen.op = "none"
    /\ seed # gen.seed
    /\ prev_gen' = gen
    /\ gen' = GenRun(gen.tile_list, seed)
    /\ UNCHANGED <<lexVars, boardVars, rack, play, gameVars>>

\* Rack.remove_list_of_letters
RECURSIVE remove_list_of_letters(_, _)
remove_list_of_letters(tile_list, letters_list) ==
    IF Len(letters_list) = 0 THEN tile_list
    ELSE remove_list_of_letters(ListRemove(tile_list, Head(letters_list)),
                                Tail(letters_list))

\* the assertion of Rack.remove_list_of_letters
RemoveArgOk(tile_list, letters_list) ==
    \A l \in Range(letters_list) : l \in Range(tile_list)

\* the board, the play and the rack once _play has run
Played(solution, played) ==
    /\ SetBoard(played.B)
    /\ play' = [op |-> "play", solution |-> solution, exc |-> played.exc,
                letter_from_rack_list |-> played.letter_from_rack_list]
    /\ rack' = IF played.exc = "" /\ RemoveArgOk(rack, played.letter_from_rack_list)
               THEN remove_list_of_letters(rack, played.letter_from_rack_list)
               ELSE rack

\* Game.play_auto when a solution is found: _play of the best solution, then
\* the letters laid leave the rack
Play ==
    /\ gen.op = "generate"
    /\ gen.exc = ""
    /\ gen.found
    /\ nb_moves < MaxMoves
    /\ Played(gen.best[1], play_solution(BoardRec, gen.best[1]))
    /\ gen' = [op |-> "none"]
    /\ prev_gen' = [op |-> "none"]
    /\ UNCHANGED <<lexVars, gameVars>>

\* Game.play_auto when no solution is found, or a hint left unplayed: the
\* turn passes and the board stays
Skip ==
    /\ gen.op = "generate"
    /\ gen' = [op |-> "none"]
    /\ prev_gen' = [op |-> "none"]
    /\ UNCHANGED <<lexVars, boardVars, rack, play, gameVars>>

NextGen ==
    \/ \E tile_list \in GenRacks, seed \in HashSeeds : Generate(tile_list, seed)
    \/ \E seed \in HashSeeds : GenerateAgain(seed)
    \/ Play
    \/ Skip

SpecGen == InitGen /\ [][NextGen]_vars

-----------------------------------------------------------------------------
(* Specification SpecPut: Board.put_on_board is called on a board, by _play *)
(* for a main word and for a cross word, with words that fit the board or   *)
(* that meet another letter                                                  *)

\* the words handed to put_on_board: a word and the word that extends it, a
\* word that overlaps it on its line and the word that extends that one at
\* the front, words that cross, words that meet
\* another letter, words two lines apart and words next to the edges
PutWordList ==
    { Word(<<"L", "E">>, "Accross", Position(7, 7)),
      Word(<<"L", "E", "S">>, "Accross", Position(7, 7)),
      Word(<<"E", "T">>, "Accross", Position(7, 8)),
      Word(<<"N", "E", "T">>, "Accross", Position(7, 7)),
      Word(<<"E", "T">>, "Down", Position(7, 8)),
      Word(<<"E", "T">>, "Accross", Position(7, 7)),
      Word(<<"L", "E", "S">>, "Accross", Position(9, 7)),
      Word(<<"L", "E">>, "Accross", Position(1, 0)),
      Word(<<"L", "E">>, "Down", Position(0, 0)),
      Word(<<"E", "T">>, "Accross", Position(13, 13)) }

\* the joker sets handed with a main word: none, and for the word laid first
\* and the word that extends it also the first letter laid with a blank
PutJokerSets(word) ==
    IF word.origin = Position(7, 7) /\ word.text[1] = "L"
    THEN { {}, {JokerTuple(0, word.text[1])} }
    ELSE { {} }

\* the words handed to put_on_board as cross words
PutCrossWordList ==
    { Word(<<"E", "T">>, "Down", Position(7, 8)),
      Word(<<"L", "E">>, "Down", Position(0, 0)) }

\* no call of put_on_board yet
PutIdle ==
    /\ rack = <<>>
    /\ gen = [op |-> "none"]
    /\ prev_gen = [op |-> "none"]
    /\ play = [op |-> "none", nb_calls |-> 0, raised |-> FALSE]
    /\ GameIdle

InitPut ==
    /\ trie = LoadWords(TrieInit, GenWordList)
    /\ loaded = GenWordList
    /\ query = [op |-> "none"]
    /\ BoardInit
    /\ PutIdle

\* the board once put_on_board has returned or raised, and the record of the
\* call: its arguments, the board it found, what it raised, and whether a
\* call has raised so far
PutDone(word, is_main_word, joker_set, put) ==
    /\ SetBoard(put.B)
    /\ play' = [op |-> "put_on_board", word |-> word,
                is_main_word |-> is_main_word, joker_set |-> joker_set,
                exc |-> put.exc,
                letter_from_rack_list |-> put.letter_from_rack_list,
                before |-> BoardRec,
                nb_calls |-> play.nb_calls + 1,
                raised |-> play.raised \/ put.exc # ""]

\* "self.board.put_on_board(solution.main_word, True, solution.joker_set)"
PutMainWord(word, joker_set) ==
    /\ play.nb_calls < MaxPuts
    /\ WordOnBoard(word.text, word.direction, word.origin)
    /\ PutDone(word, TRUE, joker_set, put_on_board(BoardRec, word, TRUE, joker_set))
    /\ UNCHANGED <<lexVars, rack, gen, prev_gen, gameVars>>

\* "self.board.put_on_board(word.word, False)"
PutCrossWord(word) ==
    /\ play.nb_calls < MaxPuts
    /\ WordOnBoard(word.text, word.direction, word.origin)
    /\ PutDone(word, FALSE, {}, put_on_board(BoardRec, word, FALSE, {}))
    /\ UNCHANGED <<lexVars, rack, gen, prev_gen, gameVars>>

NextPut ==
    \/ \E word \in PutWordList : \E joker_set \in PutJokerSets(word) :
           PutMainWord(word, joker_set)
    \/ \E word \in PutCrossWordList : PutCrossWord(word)

SpecPut == InitPut /\ [][NextPut]_vars

-----------------------------------------------------------------------------
(* Specification SpecMask: words are laid on the board and the mask of a    *)
(* line is built from it                                                     *)

\* the board once a word is laid, and the mask asked before forgotten
Laid(put) ==
    /\ put.exc = ""
    /\ SetBoard(put.B)
    /\ query' = [op |-> "none"]

\* "self.board.put_on_board(solution.main_word, True, solution.joker_set)"
\* for a word that meets no other letter
LayWord(word) ==
    /\ nb_moves < MaxPuts
    /\ WordOnBoard(word.text, word.direction, word.origin)
    /\ Laid(put_on_board(BoardRec, word, TRUE, {}))
    /\ UNCHANGED <<trie, loaded, genVars, gameVars>>

\* board.build_mask_for_line(line), once on a board
BuildMask(line) ==
    /\ query.op = "none"
    /\ query' = [op |-> "build_mask_for_line", line |-> line,
                 result |-> build_mask_for_line(BoardRec, trie, line)]
    /\ UNCHANGED <<trie, loaded, boardVars, genVars, gameVars>>

NextMask ==
    \/ \E word \in PutWordList : LayWord(word)
    \/ \E direction \in {"Accross", "Down"}, line_index \in 0..14 :
           BuildMask(Line(direction, line_index))

SpecMask == InitPut /\ [][NextMask]_vars

-----------------------------------------------------------------------------
(* scrabble.py : BagOfTile                                                   *)

\* n tiles of one letter
Tiles(letter, n) == [i \in 1..n |-> letter]

\* character_set = character_set_closure('FR')
character_set ==
    Tiles("E", 15) \o Tiles("A", 9) \o Tiles("I", 8) \o Tiles("N", 6)
    \o Tiles("O", 6) \o Tiles("R", 6) \o Tiles("S", 6) \o Tiles("T", 6)
    \o Tiles("U", 6) \o Tiles("L", 5) \o Tiles("D", 3) \o Tiles("M", 3)
    \o Tiles("G", 2) \o Tiles("B", 2) \o Tiles("C", 2) \o Tiles("P", 2)
    \o Tiles("F", 2) \o Tiles("H", 2) \o Tiles("V", 2)
    \o <<"J", "Q", "K", "W", "X", "Y", "Z", " ", " ">>

\* BagOfTile()
BagOfTile == [bag |-> character_set, is_full |-> TRUE, is_empty |-> FALSE]

\* BagOfTile.__len__
BagLen(self) == Len(self.bag)

\* BagOfTile.get_tile, random.choice giving the tile at index choice (from
\* 1): the bag it leaves and the tile it returns, "" from an empty bag
get_tile(self, choice) ==
    IF Len(self.bag) = 0
    THEN [bag |-> [self EXCEPT !.is_full = FALSE], char |-> ""]
    ELSE LET char == self.bag[choice]
             left == ListRemove(self.bag, char)
         IN  [bag |-> [bag      |-> left,
                       is_full  |-> FALSE,
                       is_empty |-> IF Len(left) = 0 THEN TRUE ELSE self.is_empty],
              char |-> char]

\* BagOfTile.put_tile_back
put_tile_back(self, char) ==
    [bag      |-> Append(self.bag, char),
     is_full  |-> IF Len(self.bag) + 1 = Len(character_set) THEN TRUE ELSE self.is_full,
     is_empty |-> self.is_empty]

\* the indices random.choice may give on the list b: any of them for the
\* first MaxFreeDraws draws, the last one afterwards
RandomChoices(b, nb_draws) ==
    IF nb_draws < MaxFreeDraws THEN DOMAIN b
    ELSE IF Len(b) = 0 THEN {} ELSE {Len(b)}

-----------------------------------------------------------------------------
(* Specification SpecBag: tiles are drawn from a full bag and put back       *)

InitBag ==
    /\ trie = TrieInit
    /\ loaded = <<>>
    /\ query = [op |-> "none"]
    /\ BoardInit
    /\ rack = <<>>
    /\ gen = [op |-> "none"]
    /\ prev_gen = [op |-> "none"]
    /\ play = [op |-> "none", nb_draws |-> 0]
    /\ bag = BagOfTile
    /\ player_dict = <<>>

\* the bag and the tiles held once get_tile has returned; the draws are
\* counted as long as random.choice is left free
Drawn(drawn) ==
    /\ bag' = drawn.bag
    /\ rack' = IF drawn.char = "" THEN rack ELSE Append(rack, drawn.char)
    /\ play' = [op |-> "get_tile", char |-> drawn.char,
                nb_draws |-> IF play.nb_draws < MaxFreeDraws
                             THEN play.nb_draws + 1 ELSE play.nb_draws]

\* "temp = [bag.get_tile() ...]": a tile is drawn and held
GetTile(choice) ==
    /\ Len(bag.bag) > 0
    /\ Drawn(get_tile(bag, choice))
    /\ UNCHANGED <<lexVars, boardVars, gen, prev_gen, player_dict>>

\* bag.get_tile() on a bag that holds no tile
GetTileFromEmptyBag ==
    /\ Len(bag.bag) = 0
    /\ Drawn(get_tile(bag, 0))
    /\ UNCHANGED <<lexVars, boardVars, gen, prev_gen, player_dict>>

\* "bag.put_tile_back(self.tile_list.pop())": the tile held last goes back
PutTileBack ==
    /\ Len(rack) > 0
    /\ bag' = put_tile_back(bag, rack[Len(rack)])
    /\ rack' = SubSeq(rack, 1, Len(rack) - 1)
    /\ play' = [op |-> "put_tile_back", char |-> rack[Len(rack)],
                nb_draws |-> play.nb_draws]
    /\ UNCHANGED <<lexVars, boardVars, gen, prev_gen, player_dict>>

NextBag ==
    \/ \E choice \in RandomChoices(bag.bag, play.nb_draws) : GetTile(choice)
    \/ GetTileFromEmptyBag
    \/ PutTileBack

SpecBag == InitBag /\ [][NextBag]_vars

-----------------------------------------------------------------------------
(* scrabble.py : Rack and Game                                               *)

\* PLAY, SKIP, CHANGE = "1", "2", "3"
PLAY == "1"
SKIP == "2"
CHANGE == "3"

\* variant of fill_rack: the rack is filled up to 8 tiles
RECURSIVE fill_rack_UpTo8(_, _, _)
fill_rack_UpTo8(tile_list, b, choices) ==
    IF Len(tile_list) >= 8 THEN [tile_list |-> tile_list, bag |-> b]
    ELSE LET choice == IF Len(b.bag) = 0 THEN 0
                       ELSE IF Len(choices) > 0
                       THEN ((Head(choices) - 1) % Len(b.bag)) + 1
                       ELSE Len(b.bag)
             drawn == get_tile(b, choice)
         IN  IF drawn.char = ""
             THEN [tile_list |-> tile_list, bag |-> drawn.bag]
             ELSE fill_rack_UpTo8(Append(tile_list, drawn.char), drawn.bag,
                                  IF Len(choices) > 0 THEN Tail(choices) ELSE <<>>)

\* Rack.fill_rack: "for _ in range(7 - len(self.tile_list))", a tile drawn
\* each time until the bag gives none; choices are the indices random.choice
\* gives for the draws it is left free in, the last tile being drawn
\* afterwards
RECURSIVE fill_rack(_, _, _)
fill_rack(tile_list, b, choices) ==
    IF Len(tile_list) >= 7 THEN [tile_list |-> tile_list, bag |-> b]
    ELSE LET choice == IF Len(b.bag) = 0 THEN 0
                       ELSE IF Len(choices) > 0
                       THEN ((Head(choices) - 1) % Len(b.bag)) + 1
                       ELSE Len(b.bag)
             drawn == get_tile(b, choice)
         IN  IF drawn.char = ""
             THEN [tile_list |-> tile_list, bag |-> drawn.bag]
             ELSE fill_rack(Append(tile_list, drawn.char), drawn.bag,
                            IF Len(choices) > 0 THEN Tail(choices) ELSE <<>>)

\* "for i in range(len(self.tile_list)): bag.put_tile_back(
\* self.tile_list.pop())"
RECURSIVE PutAllBack(_, _)
PutAllBack(tile_list, b) ==
    IF Len(tile_list) = 0 THEN b
    ELSE PutAllBack(SubSeq(tile_list, 1, Len(tile_list) - 1),
                    put_tile_back(b, tile_list[Len(tile_list)]))

\* Rack.change_all_letters
change_all_letters(tile_list, b, choices) ==
    IF b.is_empty THEN [tile_list |-> tile_list, bag |-> b]
    ELSE fill_rack(<<>>, PutAllBack(tile_list, b), choices)

\* variant of ChangeAllowed: the bag is not looked at
ChangeAllowed_AnyBag(G, player) ==
    Len(G.player_dict[player].rack) = 7

\* "len(player_dict_ref['rack']) == 7 and len(self.bag) >= 7"
ChangeAllowed(G, player) ==
    Len(G.player_dict[player].rack) = 7 /\ BagLen(G.bag) >= 7

\* what a turn returns: the exception raised, the rc of PlayReturnTuple, the
\* game it leaves and the letters taken from the rack
TurnReturn(exc, rc, G, letter_from_rack_list) ==
    [exc |-> exc, rc |-> rc, G |-> G, letter_from_rack_list |-> letter_from_rack_list]

\* Game._play, played being what it has done to the board
Game_play(G, player, solution, played) ==
    TurnReturn(played.exc,
               IF played.exc = "" THEN "played" ELSE "",
               [G EXCEPT !.player_dict[player].nb_skip_in_sequence = 0,
                         !.player_dict[player].score =
                             IF played.exc = "" THEN @ + solution.value ELSE @,
                         !.B = played.B],
               played.letter_from_rack_list)

\* Game.play_manual for the instructions SKIP and CHANGE
play_manual(G, player, type_of_play) ==
    IF type_of_play = SKIP
    THEN TurnReturn("", "skip",
                    [G EXCEPT !.player_dict[player].nb_skip_in_sequence = @ + 1],
                    <<>>)
    ELSE IF ChangeAllowed(G, player)
    THEN TurnReturn("", "change", G, <<>>)
    ELSE TurnReturn("ChangeRackLettersNotAllowed", "", G, <<>>)

\* Game.play_auto, sorted being what the generator returns for the rack of
\* the player
play_auto(G, player, sorted) ==
    IF sorted.exc # "" THEN TurnReturn(sorted.exc, "", G, <<>>)
    ELSE IF sorted.found
    THEN Game_play(G, player, BestOf(sorted)[1], play_solution(G.B, BestOf(sorted)[1]))
    ELSE IF ChangeAllowed(G, player)
    THEN TurnReturn("", "change", G, <<>>)
    ELSE TurnReturn("", "skip",
                    [G EXCEPT !.player_dict[player].nb_skip_in_sequence = @ + 1],
                    <<>>)

\* what the body of the loop of manual_play leaves for one player: the
\* exception raised, the game, and whether the loop ends the game
LoopReturn(exc, rc, G, game_over) ==
    [exc |-> exc, rc |-> rc, G |-> G, game_over |-> game_over]

\* 'if play_return.rc == "played"': the letters leave the rack, which is
\* filled again unless the bag is empty
AfterPlayed(turn, player, choices) ==
    IF ~RemoveArgOk(turn.G.player_dict[player].rack, turn.letter_from_rack_list)
    THEN LoopReturn("AssertionError", turn.rc, turn.G, FALSE)
    ELSE IF turn.G.bag.is_empty
    THEN LoopReturn("", turn.rc,
                    [turn.G EXCEPT !.player_dict[player].rack =
                        remove_list_of_letters(@, turn.letter_from_rack_list)],
                    remove_list_of_letters(turn.G.player_dict[player].rack,
                                           turn.letter_from_rack_list) = <<>>)
    ELSE LoopReturn("", turn.rc,
                    [turn.G EXCEPT
                        !.player_dict[player].rack =
                            fill_rack(remove_list_of_letters(@, turn.letter_from_rack_list),
                                      turn.G.bag, choices).tile_list,
                        !.bag =
                            fill_rack(remove_list_of_letters(
                                          turn.G.player_dict[player].rack,
                                          turn.letter_from_rack_list),
                                      turn.G.bag, choices).bag],
                    FALSE)

\* 'elif play_return.rc == "change"'
AfterChange(turn, player, choices) ==
    IF ChangeAllowed(turn.G, player)
    THEN LoopReturn("", turn.rc,
                    [turn.G EXCEPT
                        !.player_dict[player].rack =
                            change_all_letters(@, turn.G.bag, choices).tile_list,
                        !.bag =
                            change_all_letters(turn.G.player_dict[player].rack,
                                               turn.G.bag, choices).bag],
                    FALSE)
    ELSE LoopReturn("RequestedRackTilesChangeNotAllowed", turn.rc, turn.G, FALSE)

\* the body of "for i, player in enumerate(looping_on_player_list)" once the
\* player has played
AfterTurn(turn, player, choices) ==
    IF turn.exc # "" THEN LoopReturn(turn.exc, turn.rc, turn.G, FALSE)
    ELSE IF turn.rc = "played" THEN AfterPlayed(turn, player, choices)
    ELSE IF turn.rc = "skip"
    THEN LoopReturn("", turn.rc, turn.G,
                    \A p \in DOMAIN turn.G.player_dict :
                        turn.G.player_dict[p].nb_skip_in_sequence >= 3)
    ELSE AfterChange(turn, player, choices)

\* "sum(map(lambda x: character_value(x), self.player_dict[op]['rack']))"
RECURSIVE RackValue(_)
RackValue(tile_list) ==
    IF Len(tile_list) = 0 THEN 0
    ELSE character_value(Head(tile_list)) + RackValue(Tail(tile_list))

\* "if game_over: ... compute final scoring": when the rack of player_name is
\* empty the value of the tiles the others hold goes from them to it
FinalScoring(G, player_name) ==
    IF Len(G.player_dict[player_name].rack) # 0 THEN G
    ELSE [G EXCEPT !.player_dict =
             [p \in DOMAIN @ |->
                 IF p = player_name
                 THEN [@[p] EXCEPT !.score =
                          @ + RackValue(G.player_dict[CHOOSE op \in DOMAIN G.player_dict :
                                                          op # player_name].rack)]
                 ELSE [@[p] EXCEPT !.score = @ - RackValue(G.player_dict[p].rack)]]]

\* what manual_play leaves: the exception it raises or the game_over it
\* returns, the game, the game as the first player left it, the game as the
\* loop left it, and the turn of the automatic player if it has played
RequestReturn(player_name, first, auto_ran, last) ==
    [exc       |-> last.exc,
     game_over |-> last.game_over,
     G         |-> IF last.exc = "" /\ last.game_over
                   THEN FinalScoring(last.G, player_name) ELSE last.G,
     mid       |-> first.G,
     last      |-> last.G,
     first_rc  |-> first.rc,
     auto_ran  |-> auto_ran,
     auto_rc   |-> IF auto_ran THEN last.rc ELSE ""]

\* the loop of manual_play from its second player on, first being what the
\* turn of player_name has left
FollowingPlayers(first, player_name, auto_name, sorted, choices) ==
    IF first.exc # "" \/ first.game_over
    THEN RequestReturn(player_name, first, FALSE, first)
    ELSE RequestReturn(player_name, first, TRUE,
                       AfterTurn(play_auto(first.G, auto_name, sorted),
                                 auto_name, choices))

\* Game.manual_play for a game of two players and the instructions SKIP and
\* CHANGE, player_name in manual mode followed by auto_name in auto mode:
\* the turn of player_name, then, unless the loop has ended, that of
\* auto_name.  sorted is what the generator returns for the rack of
\* auto_name, which the turn of player_name leaves as it is, like the board.
manual_play(G, player_name, auto_name, type_of_play, sorted, choices) ==
    FollowingPlayers(AfterTurn(play_manual(G, player_name, type_of_play),
                               player_name, choices),
                     player_name, auto_name, sorted, choices)

-----------------------------------------------------------------------------
(* Specification SpecGame: requests SKIP and CHANGE of the manual player of  *)
(* a game of two, each followed by the turn of the automatic player          *)

\* players_name_list: the manual player, then the automatic one
players_name_list == <<"HUMAN", "ROBOT">>

\* the racks of the manual player: a full one, and one the empty bag has
\* left short
ManualRacks ==
    { <<"L", "E", "S", "T", "E", "N", " ">>,
      <<"L", "E", "S", "T", "E", "N">> }

\* the racks of the automatic player: one that finds a word, a full one and
\* a short one that find none, and a short one that can be laid whole
AutoRacks ==
    { <<"E", "N", "T", "E", " ", "E", "S">>,
      <<"A", "A", "A", "A", "A", "A", "A">>,
      <<"A", "A", "A", "A", "A">>,
      <<"E">> }

\* the word on the board of a game in progress
GameFirstWord == Word(<<"N", "E", "T">>, "Accross", Position(7, 7))

\* the numbers of tiles left in the bag of a game in progress besides all
\* of them
GameBagSizes == {0, 6, 7}

\* the tiles that are neither on the racks nor on the board
TilesLeft(manual_rack, auto_rack, on_board) ==
    remove_list_of_letters(character_set, manual_rack \o auto_rack \o on_board)

\* a bag of the game: tiles left, the flags as get_tile leaves them
GameBag(tiles) ==
    [bag |-> tiles, is_full |-> FALSE, is_empty |-> Len(tiles) = 0]

\* the player_dict of a game: scores and counters of skips as a game in
\* progress may have them
PlayerDict(manual_rack, auto_rack, nb_skip) ==
    [p \in Range(players_name_list) |->
        [mode  |-> IF p = players_name_list[1] THEN "manual" ELSE "auto",
         score |-> 0,
         rack  |-> IF p = players_name_list[1] THEN manual_rack ELSE auto_rack,
         nb_skip_in_sequence |-> nb_skip]]

\* the game the server receives with a request
GameRec == [bag |-> bag, player_dict |-> player_dict, B |-> BoardRec]

\* a game as Game.__init__ receives it: at its opening, both racks full
\* and the other tiles in the bag, or in progress, NET on the board
InitGame ==
    /\ trie = LoadWords(TrieInit, GenWordList)
    /\ loaded = GenWordList
    /\ query = [op |-> "none"]
    /\ rack = <<>>
    /\ gen = [op |-> "none"]
    /\ prev_gen = [op |-> "none"]
    /\ play = [op |-> "none", nb_requests |-> 0]
    /\ \E manual_rack \in ManualRacks, auto_rack \in AutoRacks, nb_skip \in {0, 2} :
          /\ player_dict = PlayerDict(manual_rack, auto_rack, nb_skip)
          /\ \/ /\ Len(manual_rack) = 7 /\ Len(auto_rack) = 7 /\ nb_skip = 0
                /\ BoardInit
                /\ bag = GameBag(TilesLeft(manual_rack, auto_rack, <<>>))
             \/ /\ \E put \in {put_on_board(EmptyBoard, GameFirstWord, TRUE, {})} :
                      /\ board = put.B.board
                      /\ board_values = put.B.board_values
                      /\ word_set = put.B.word_set
                      /\ position_to_words = put.B.position_to_words
                      /\ nb_moves = put.B.nb_moves
                /\ \E n \in GameBagSizes \cup
                             {Len(TilesLeft(manual_rack, auto_rack, GameFirstWord.text))} :
                      /\ Len(manual_rack) < 7 \/ Len(auto_rack) < 7 => n = 0
                      /\ bag = GameBag(SubSeq(TilesLeft(manual_rack, auto_rack,
                                                        GameFirstWord.text), 1, n))

\* the values random.choice is given by its generator, the tile drawn being
\* that of index value modulo the length of the bag
RandomValues == {1, 30}

\* the state and the record of a request once manual_play has returned or
\* raised
Requested(type_of_play, seed, sorted, before, request) ==
    /\ SetBoard(request.G.B)
    /\ bag' = request.G.bag
    /\ player_dict' = request.G.player_dict
    /\ play' = [op           |-> "manual_play",
                type_of_play |-> type_of_play,
                seed         |-> seed,
                exc          |-> request.exc,
                game_over    |-> request.game_over,
                before       |-> [bag |-> before.bag, player_dict |-> before.player_dict],
                mid          |-> [bag |-> request.mid.bag,
                                  player_dict |-> request.mid.player_dict],
                loop         |-> request.last.player_dict,
                first_rc     |-> request.first_rc,
                auto_ran     |-> request.auto_ran,
                auto_rc      |-> request.auto_rc,
                auto_exc     |-> IF request.auto_ran THEN sorted.exc ELSE "",
                auto_found   |-> request.auto_ran /\ sorted.found,
                nb_requests  |-> play.nb_requests + 1]

\* one request with the generator's answer for the automatic player
RequestWith(type_of_play, seed, sorted) ==
    \E choices \in [1..MaxFreeDraws -> RandomValues] :
        Requested(type_of_play, seed, sorted, GameRec,
                  manual_play(GameRec, players_name_list[1], players_name_list[2],
                              type_of_play, sorted, choices))

\* scrabble_game.manual_play(player_name, (SKIP, None)) or (CHANGE, None)
ManualPlay(type_of_play, seed) ==
    /\ play.nb_requests < MaxRequests
    /\ RequestWith(type_of_play, seed,
                   get_sorted_list_of_solutions_for_rack(
                       BoardRec, trie, player_dict[players_name_list[2]].rack,
                       [word_list |-> loaded, seed |-> seed]))
    /\ UNCHANGED <<lexVars, rack, gen, prev_gen>>

NextGame ==
    \E type_of_play \in {SKIP, CHANGE}, seed \in HashSeeds :
        ManualPlay(type_of_play, seed)

SpecGame == InitGame /\ [][NextGame]_vars

-----------------------------------------------------------------------------
(* Specification SpecLine: words are laid on a board and                     *)
(* get_potential_solutions_for_line is called for a line and a rack          *)

\* the word list loaded into the lexicon: that of the generator and a word
\* of eight letters
LineWordList ==
    GenWordList \o << <<"E", "N", "T", "E", "T", "E", "E", "S">> >>

\* the words laid on the board: two words of one row with one empty cell
\* between them, a letter further along the row, a word that leaves the
\* first cell of its column empty, a word whose last letter lets no letter
\* stand under it, and a word that ends on the last cell of its row
LineWordsLaid ==
    { Word(<<"L", "E">>, "Accross", Position(7, 0)),
      Word(<<"E", "T">>, "Accross", Position(7, 3)),
      Word(<<"E", "S">>, "Down", Position(6, 9)),
      Word(<<"T", "E">>, "Down", Position(1, 0)),
      Word(<<"E", "S">>, "Down", Position(5, 7)),
      Word(<<"E", "T">>, "Accross", Position(13, 13)) }

\* the racks handed with a line
LineRacks ==
    { <<"E", "N", "T", "E", "T", "E", "E">>,
      <<"L", " ", "E", "S", "T", "N", "E">> }

InitLine ==
    /\ trie = LoadWords(TrieInit, LineWordList)
    /\ loaded = LineWordList
    /\ query = [op |-> "none"]
    /\ BoardInit
    /\ PutIdle

\* a word is laid on the board
LayLineWord(word) ==
    /\ nb_moves < MaxPuts
    /\ WordOnBoard(word.text, word.direction, word.origin)
    /\ Laid(put_on_board(BoardRec, word, TRUE, {}))
    /\ UNCHANGED <<trie, loaded, genVars, gameVars>>

\* min_length of get_potential_solutions_for_line for each anchor tuple, the
\* "while" loop run
MinLengths(line, mask, anchor_tuple_list) ==
    [k \in DOMAIN anchor_tuple_list |->
        MinLength(SubSeq(mask, anchor_tuple_list[k].left_index + 1, 15),
                  pos_2_index(line, anchor_tuple_list[k].pos)
                  - anchor_tuple_list[k].left_index + 1)]

\* the record of one call of get_potential_solutions_for_line: the mask of
\* the line, the anchor tuples, min_length for each of them, and the list
\* returned or the exception raised
LineRecord(line, tile_list, seed, mask, solution_list) ==
    [op                |-> "get_potential_solutions_for_line",
     line              |-> line,
     tile_list         |-> tile_list,
     seed              |-> seed,
     mask              |-> mask,
     anchor_tuple_list |-> IF mask.exc = ""
                           THEN build_left_masks_list(line, mask.value) ELSE <<>>,
     min_length        |-> IF mask.exc = ""
                           THEN MinLengths(line, mask.value,
                                           build_left_masks_list(line, mask.value))
                           ELSE <<>>,
     exc               |-> solution_list.exc,
     solution_list     |-> solution_list.value]

\* the call once the mask of the line is built
SolveMask(line, tile_list, seed, mask) ==
    query' = LineRecord(line, tile_list, seed, mask,
                        SolutionsForMask(BoardRec, trie, line, mask, tile_list,
                                         [word_list |-> loaded, seed |-> seed]))

\* board.get_potential_solutions_for_line(line, rack)
SolveLine(line, tile_list, seed) ==
    /\ query.op = "none"
    /\ nb_moves > 0
    /\ SolveMask(line, tile_list, seed, build_mask_for_line(BoardRec, trie, line))
    /\ UNCHANGED <<trie, loaded, boardVars, genVars, gameVars>>

NextLine ==
    \/ \E word \in LineWordsLaid : LayLineWord(word)
    \/ \E direction \in {"Accross", "Down"}, line_index \in 0..14,
          tile_list \in LineRacks, seed \in HashSeeds :
          SolveLine(Line(direction, line_index), tile_list, seed)

SpecLine == InitLine /\ [][NextLine]_vars

-----------------------------------------------------------------------------
(* Specification SpecAuto: Game.automatic_play, one step for each turn of    *)
(* its loop on the players, the last one with the final scoring              *)

\* players_name_list of a game of two automatic players
auto_name_list == <<"ROBOT1", "ROBOT2">>

\* the racks of the first player: one that finds words, one that finds
\* none, and short ones the empty bag has left
FirstRacks ==
    { <<"E", "N", "T", "E", " ", "E", "S">>,
      <<"A", "A", "A", "A", "A", "A", "A">>,
      <<"T", "E">>,
      <<"E">> }

\* the racks of the second player
SecondRacks ==
    { <<"T", "E", " ", "U", "U", "U", "U">>,
      <<"U", "U", "U">> }

\* the numbers of tiles left in the bag of a game in progress besides all
\* of them
AutoBagSizes == {0, 2, 9}

\* the player_dict of a game of automatic players
AutoPlayerDict(first_rack, second_rack, nb_skip) ==
    [p \in Range(auto_name_list) |->
        [mode  |-> "auto",
         score |-> 0,
         rack  |-> IF p = auto_name_list[1] THEN first_rack ELSE second_rack,
         nb_skip_in_sequence |-> nb_skip]]

\* the tile of cell c of the board: a blank when the cell stores no value
BoardTile(brd, vals, c) == IF vals[c] = 0 THEN " " ELSE brd[c]

\* how many tiles of each kind the bag, the racks and the board hold
TileCounts(b, pd, brd, vals) ==
    [l \in Range(character_set) |->
        ListCount(b.bag, l)
        + ListCount(pd[auto_name_list[1]].rack, l)
        + ListCount(pd[auto_name_list[2]].rack, l)
        + Cardinality({c \in 0..224 : brd[c] # " " /\ BoardTile(brd, vals, c) = l})]

\* a game as Game.__init__ builds it: at its opening, both racks full and
\* the other tiles in the bag, or in progress, NET on the board
InitAuto ==
    /\ trie = LoadWords(TrieInit, GenWordList)
    /\ loaded = GenWordList
    /\ query = [op |-> "none"]
    /\ rack = <<>>
    /\ gen = [op |-> "none"]
    /\ prev_gen = [op |-> "none"]
    /\ \E first_rack \in FirstRacks, second_rack \in SecondRacks, nb_skip \in {0, 2} :
          /\ player_dict = AutoPlayerDict(first_rack, second_rack, nb_skip)
          /\ \/ /\ Len(first_rack) = 7 /\ Len(second_rack) = 7 /\ nb_skip = 0
                /\ BoardInit
                /\ bag = GameBag(TilesLeft(first_rack, second_rack, <<>>))
             \/ /\ \E put \in {put_on_board(EmptyBoard, GameFirstWord, TRUE, {})} :
                      /\ board = put.B.board
                      /\ board_values = put.B.board_values
                      /\ word_set = put.B.word_set
                      /\ position_to_words = put.B.position_to_words
                      /\ nb_moves = put.B.nb_moves
                /\ \E n \in AutoBagSizes \cup
                             {Len(TilesLeft(first_rack, second_rack, GameFirstWord.text))} :
                      /\ Len(first_rack) < 7 \/ Len(second_rack) < 7 => n = 0
                      /\ bag = GameBag(SubSeq(TilesLeft(first_rack, second_rack,
                                                        GameFirstWord.text), 1, n))
    /\ play = [op |-> "none", nb_turns |-> 0, next |-> 1, status |-> "running",
               start |-> TileCounts(bag, player_dict, board, board_values)]

\* the state and the record of a turn of the loop: the player, what
\* play_auto returned, the bag and the racks the turn found, the scores the
\* loop left, and whether the loop goes on, has ended the game or has raised
TurnDone(player, seed, turn, loop, G) ==
    /\ SetBoard(G.B)
    /\ bag' = G.bag
    /\ player_dict' = G.player_dict
    /\ play' = [op        |-> "automatic_play",
                player    |-> player,
                seed      |-> seed,
                rc        |-> loop.rc,
                exc       |-> loop.exc,
                letter_from_rack_list |-> turn.letter_from_rack_list,
                before    |-> [bag |-> bag, player_dict |-> player_dict],
                loop      |-> loop.G.player_dict,
                status    |-> IF loop.exc # "" THEN "raised"
                              ELSE IF loop.game_over THEN "over" ELSE "running",
                nb_turns  |-> play.nb_turns + 1,
                next      |-> (play.next % Len(auto_name_list)) + 1,
                start     |-> play.start]

\* the body of "for player in itertools.cycle(self.players_name_list)" and,
\* when it breaks, the final scoring for the player of the last turn
TurnWith(player, seed, turn, loop) ==
    TurnDone(player, seed, turn, loop,
             IF loop.exc = "" /\ loop.game_over
             THEN FinalScoring(loop.G, player) ELSE loop.G)

\* the turn of a player with what play_auto has returned
TurnOf(player, seed, turn) ==
    \E choices \in [1..MaxFreeDraws -> RandomValues] :
        TurnWith(player, seed, turn, AfterTurn(turn, player, choices))

\* one turn of the loop of automatic_play
AutoTurn(seed) ==
    /\ play.status = "running"
    /\ play.nb_turns < MaxTurns
    /\ TurnOf(auto_name_list[play.next], seed,
              play_auto(GameRec, auto_name_list[play.next],
                        get_sorted_list_of_solutions_for_rack(
                            BoardRec, trie, player_dict[auto_name_list[play.next]].rack,
                            [word_list |-> loaded, seed |-> seed])))
    /\ UNCHANGED <<lexVars, rack, gen, prev_gen>>

NextAuto == \E seed \in HashSeeds : AutoTurn(seed)

SpecAuto == InitAuto /\ [][NextAuto]_vars
-----------------------------------------------------------------------------
(* scrabble.py : DictionaryServer, and dictionnary_server_en.py              *)

\* "self.request_retries = 3"
request_retries == 3

\* "res = getattr(trie, method_str)(**kwargs)"
CallTrie(T, method_str, kwargs) ==
    IF method_str = "this_is_a_valid_word"
    THEN this_is_a_valid_word(T, kwargs.string)
    ELSE IF method_str = "possible_word_set_from_string"
    THEN possible_word_set_from_string(T, kwargs.string)
    ELSE possible_words_for_mask_with_rack(T, kwargs.mask, kwargs.tile_list,
                                           kwargs.min_length)

\* the body of "while True" of listen_dict_server_queries between the
\* request and the response: ret, as (success, res) or (False, text)
ServerRet(T, method_str, kwargs) ==
    IF method_str \notin {"possible_words_for_mask_with_rack",
                          "this_is_a_valid_word",
                          "possible_word_set_from_string"}
    THEN [success |-> FALSE, message_reply |-> "method is not implemented"]
    ELSE LET res == CallTrie(T, method_str, kwargs)
         IN  IF res.exc # ""
             THEN [success |-> FALSE, message_reply |-> res.exc]
             ELSE [success |-> TRUE, message_reply |-> res.value]

\* variant of OnReply: the reply is returned whatever its success
OnReply_ReturnsAny(c, ret) ==
    [c EXCEPT !.sequence = @ + 1,
              !.received = <<ret>>,
              !.retries_left = 0,
              !.pc = "returned",
              !.message_reply = <<ret.message_reply>>]

\* "if socks.get(client) == zmq.POLLIN": the reply is received; on success
\* "retries_left = 0; break", the outer loop ends and message_reply is
\* returned, else DictionaryServerInternalError is raised
OnReply(c, ret) ==
    IF ret.success
    THEN [c EXCEPT !.sequence = @ + 1,
                   !.received = <<ret>>,
                   !.retries_left = 0,
                   !.pc = "returned",
                   !.message_reply = <<ret.message_reply>>]
    ELSE [c EXCEPT !.sequence = @ + 1,
                   !.received = <<ret>>,
                   !.pc = "raised",
                   !.exc = "DictionaryServerInternalError"]

\* the "else" of the poll: no reply within request_time_out; the socket is
\* closed, "retries_left -= 1", and either DictionaryServerNotResponding is
\* raised or a new socket is connected and the request sent again
OnTimeOut(c) ==
    IF c.retries_left - 1 = 0
    THEN [c EXCEPT !.sequence = @ + 1,
                   !.nb_time_outs = @ + 1,
                   !.retries_left = 0,
                   !.pending = <<>>,
                   !.pc = "raised",
                   !.exc = "DictionaryServerNotResponding"]
    ELSE [c EXCEPT !.sequence = @ + 1,
                   !.nb_time_outs = @ + 1,
                   !.retries_left = @ - 1,
                   !.pending = <<>>,
                   !.client = @ + 1,
                   !.nb_sent = @ + 1,
                   !.inbox = Append(@, [address |-> c.client + 1,
                                        method_str |-> c.method_str,
                                        kwargs |-> c.kwargs])]

-----------------------------------------------------------------------------
(* Specification SpecClient: calls of the dictionary server by a client, the *)
(* server answering, late or not at all                                      *)

\* the calls made: a word of the lexicon, a string that is no word, a string
\* the lexicon refuses, a pattern with a blank, a mask with a rack, and a
\* method the server does not implement
ClientCalls ==
    { [method_str |-> "this_is_a_valid_word", kwargs |-> [string |-> <<"L", "E">>]],
      [method_str |-> "this_is_a_valid_word", kwargs |-> [string |-> <<"L", "L">>]],
      [method_str |-> "this_is_a_valid_word", kwargs |-> [string |-> <<"L">>]],
      [method_str |-> "possible_word_set_from_string",
       kwargs |-> [string |-> <<"L", " ">>]],
      [method_str |-> "possible_words_for_mask_with_rack",
       kwargs |-> [mask |-> <<MaskItemDict(<<>>), MaskItemDict(<<>>)>>,
                   tile_list |-> <<"E", "L">>, min_length |-> 2]],
      [method_str |-> "remove_word", kwargs |-> [string |-> <<"L", "E">>]] }

\* no call yet: no socket, nothing sent to the server
InitClient ==
    /\ trie = LoadWords(TrieInit, GenWordList)
    /\ loaded = GenWordList
    /\ query = [op |-> "none", pc |-> "idle", nb_calls |-> 0, client |-> 0,
                inbox |-> <<>>, pending |-> <<>>]
    /\ BoardInit
    /\ GenIdle
    /\ GameIdle

\* _call_dictionary_server_method up to its first poll: a socket is
\* connected and the request sent
CallServer(method_str, kwargs) ==
    /\ query.pc \in {"idle", "returned", "raised"}
    /\ query.nb_calls < MaxCalls
    /\ query' = [op            |-> "_call_dictionary_server_method",
                 method_str    |-> method_str,
                 kwargs        |-> kwargs,
                 pc            |-> "poll",
                 exc           |-> "",
                 sequence      |-> 0,
                 retries_left  |-> request_retries,
                 client        |-> query.client + 1,
                 nb_sent       |-> 1,
                 nb_time_outs  |-> 0,
                 received      |-> <<>>,
                 message_reply |-> <<>>,
                 pending       |-> <<>>,
                 inbox         |-> Append(query.inbox,
                                          [address |-> query.client + 1,
                                           method_str |-> method_str,
                                           kwargs |-> kwargs]),
                 nb_calls      |-> query.nb_calls + 1]
    /\ UNCHANGED <<trie, loaded, boardVars, genVars, gameVars>>

\* the poll finds the reply of the server on the socket
PollReply ==
    /\ query.pc = "poll"
    /\ query.pending # <<>>
    /\ query' = [OnReply(query, query.pending[1]) EXCEPT !.pending = <<>>]
    /\ UNCHANGED <<trie, loaded, boardVars, genVars, gameVars>>

\* the poll ends after request_time_out with nothing on the socket, the
\* reply being late or the server away
PollTimeOut ==
    /\ query.pc = "poll"
    /\ query' = OnTimeOut(query)
    /\ UNCHANGED <<trie, loaded, boardVars, genVars, gameVars>>

\* one turn of "while True" of listen_dict_server_queries: a request is
\* taken and answered to its address; the answer to a closed socket is lost
Serve ==
    /\ query.inbox # <<>>
    /\ query' = [query EXCEPT
                    !.inbox = Tail(@),
                    !.pending =
                        IF query.pc = "poll" /\ Head(query.inbox).address = query.client
                        THEN <<ServerRet(trie, Head(query.inbox).method_str,
                                         Head(query.inbox).kwargs)>>
                        ELSE @]
    /\ UNCHANGED <<trie, loaded, boardVars, genVars, gameVars>>

NextClient ==
    \/ \E call \in ClientCalls : CallServer(call.method_str, call.kwargs)
    \/ PollReply
    \/ PollTimeOut
    \/ Serve

SpecClient == InitClient /\ [][NextClient]_vars
-----------------------------------------------------------------------------
(* Specification SpecTrie: a lexicon built word by word and queried *)

TrieLetters == {"A", "B"}

\* the words handed to _add_word
TrieWords == {w \in SeqsOf(TrieLetters, 2, MaxWordLen) : w[1] = "A"}

\* the strings handed to this_is_a_valid_word
TrieStrings == SeqsOf(TrieLetters, 1, MaxWordLen + 1)

\* the patterns handed to possible_word_set_from_string: one space each
TriePatterns ==
    {p \in SeqsOf(TrieLetters \cup {" "}, 1, MaxWordLen + 1) : ListCount(p, " ") = 1}

InitTrie ==
    /\ trie = TrieInit
    /\ loaded = <<>>
    /\ query = [op |-> "none"]
    /\ BoardInit
    /\ GenIdle

\* trie._add_word(string)
AddWord(string) ==
    /\ query.op = "none"
    /\ Len(loaded) < MaxAdds
    /\ trie' = add_word(trie, string)
    /\ loaded' = Append(loaded, string)
    /\ query' = [op |-> "add", string |-> string, trie_before |-> trie]
    /\ UNCHANGED <<boardVars, genVars, gameVars>>

\* trie.this_is_a_valid_word(string)
QueryValid(string) ==
    /\ query.op = "none"
    /\ query' = [op |-> "valid", string |-> string,
                 result |-> this_is_a_valid_word(trie, string)]
    /\ UNCHANGED <<trie, loaded, boardVars, genVars, gameVars>>

\* trie.possible_word_set_from_string(string)
QueryPattern(string) ==
    /\ query.op = "none"
    /\ query' = [op |-> "pattern", string |-> string,
                 result |-> possible_word_set_from_string(trie, string)]
    /\ UNCHANGED <<trie, loaded, boardVars, genVars, gameVars>>

\* the call returns: its result is handed over to the caller
Return ==
    /\ query.op # "none"
    /\ query' = [op |-> "none"]
    /\ UNCHANGED <<trie, loaded, boardVars, genVars, gameVars>>

NextTrie ==
    \/ \E string \in TrieWords : AddWord(string)
    \/ \E string \in TrieStrings : QueryValid(string)
    \/ \E string \in TriePatterns : QueryPattern(string)
    \/ Return

SpecTrie == InitTrie /\ [][NextTrie]_vars

-----------------------------------------------------------------------------
(* Specification SpecSearch: one masked search on a loaded lexicon *)

SearchLetters == {"A", "B"}

\* the word lists loaded into the lexicon
SearchWordLists ==
    { << <<"A", "A">>, <<"A", "A", "B">>, <<"B", "A">> >>,
      << <<"A", "B">>, <<"A", "B", "A">>, <<"B", "A", "B">>, <<"B", "B">> >>,
      << <<"B", "A", "A">>, <<"A", "B">>, <<"B", "A">>, <<"A", "B", "B">> >> }

\* the mask items: a letter on the board, an open cell, a cell whose cross
\* word admits only A, a cell no letter fits
SearchMaskItems ==
    { MaskItemStr("A"), MaskItemStr("B"), MaskItemDict(<<>>),
      MaskItemDict(("A" :> [index |-> 0, word_str |-> <<"A", "B">>])),
      MaskItemNone }

TileRank(c) == IF c = " " THEN 0 ELSE IF c = "A" THEN 1 ELSE 2

\* the racks, one list per multiset of tiles
SearchRacks ==
    {r \in SeqsOf(SearchLetters \cup {" "}, 0, MaxRackLen) :
        \A i \in 1..(Len(r) - 1) : TileRank(r[i]) <= TileRank(r[i + 1])}

InitSearch ==
    /\ \E word_list \in SearchWordLists :
          /\ trie = LoadWords(TrieInit, word_list)
          /\ loaded = word_list
    /\ \E mask \in SeqsOf(SearchMaskItems, 1, MaxMaskLen),
          tile_list \in SearchRacks,
          min_length \in 1..MaxMaskLen :
          /\ Len(mask) <= TrieMaxDepth(trie)
          /\ query = [op |-> "search", mask |-> mask, tile_list |-> tile_list,
                      min_length |-> min_length, done |-> FALSE,
                      result |-> [exc |-> "", value |-> {}]]
    /\ BoardInit
    /\ GenIdle

\* trie.possible_words_for_mask_with_rack(mask, tile_list, min_length)
Search ==
    /\ query.op = "search"
    /\ ~query.done
    /\ query' = [query EXCEPT
                    !.done = TRUE,
                    !.result = possible_words_for_mask_with_rack(
                                   trie, query.mask, query.tile_list, query.min_length)]
    /\ UNCHANGED <<trie, loaded, boardVars, genVars, gameVars>>

NextSearch == Search

SpecSearch == InitSearch /\ [][NextSearch]_vars

-----------------------------------------------------------------------------
(* Properties of the lexicon *)

\* number of rack tiles the word w needs for the letter c under the mask:
\* the cells of w that hold no board letter and carry c
NeedOf(w, mask, c) ==
    Cardinality({i \in 1..Len(w) : mask[i].tag # "str" /\ w[i] = c})

RECURSIVE SumShortfall(_, _, _, _)
SumShortfall(w, mask, tiles, letters) ==
    IF letters = {} THEN 0
    ELSE LET c == CHOOSE x \in letters : TRUE
             need == NeedOf(w, mask, c)
             have == ListCount(tiles, c)
         IN  (IF need > have THEN need - have ELSE 0)
             + SumShortfall(w, mask, tiles, letters \ {c})

\* the letter tiles w lacks in the rack, each to be replaced by one blank
Shortfall(w, mask, tiles) == SumShortfall(w, mask, tiles, Range(w))

\* w can be laid with the rack, a blank standing for any one letter
DrawableFromRack(w, mask, tiles) ==
    Shortfall(w, mask, tiles) <= ListCount(tiles, " ")

\* w agrees with the mask on each of its cells
AgreesWithMask(w, mask) ==
    \A i \in 1..Len(w) :
        /\ mask[i].tag # "None"
        /\ mask[i].tag = "str" => w[i] = mask[i].letter
        /\ (mask[i].tag = "dict" /\ DOMAIN mask[i].data # {}) => w[i] \in DOMAIN mask[i].data

\* w is an answer of the masked search for (mask, tiles, min_length)
FitsSearch(w, mask, tiles, min_length) ==
    /\ min_length <= Len(w)
    /\ Len(w) <= Len(mask)
    /\ AgreesWithMask(w, mask)
    /\ DrawableFromRack(w, mask, tiles)

SearchDone == query.op = "search" /\ query.done

\* C1: every word returned by possible_words_for_mask_with_rack is a loaded
\* word, has min_length <= len <= len(mask), agrees with the mask on each of
\* its cells (the board letter, a key of the cross-word map, no unusable
\* cell) and can be drawn from the rack, each blank standing for one letter.
C1_SearchSound ==
    SearchDone =>
        \A w \in query.result.value :
            /\ w \in Range(loaded)
            /\ FitsSearch(w, query.mask, query.tile_list, query.min_length)

\* a returned three-letter word that crosses a board letter and a cross-word
\* cell and takes a blank of the rack
C1_Witness ==
    /\ SearchDone
    /\ \E w \in query.result.value :
          /\ Len(w) = 3
          /\ \E i \in 1..3 : query.mask[i].tag = "str"
          /\ \E i \in 1..3 : query.mask[i].tag = "dict" /\ DOMAIN query.mask[i].data # {}
          /\ Shortfall(w, query.mask, query.tile_list) > 0

\* C2: the masked search is complete: for a mask no longer than the depth of
\* the lexicon and min_length >= 1, it returns a set that holds every loaded
\* word meeting the length bounds, the mask and the rack-with-blanks
\* constraint, also one that needs a blank for a second copy of a letter.
C2_SearchComplete ==
    SearchDone =>
        /\ query.result.exc = ""
        /\ \A w \in Range(loaded) :
              FitsSearch(w, query.mask, query.tile_list, query.min_length)
                  => w \in query.result.value

\* a returned word that lays a letter twice from a rack holding it once and
\* a blank
C2_Witness ==
    /\ SearchDone
    /\ \E w \in query.result.value : \E c \in Range(w) :
          /\ NeedOf(w, query.mask, c) >= 2
          /\ ListCount(query.tile_list, c) = 1
          /\ ListCount(query.tile_list, " ") >= 1

\* C9: this_is_a_valid_word(s) is true exactly for the words that were added,
\* for every s of 2 to 15 uppercase letters (a proper prefix or extension of
\* a loaded word that was not loaded is no word), and adding a word a second
\* time leaves the lexicon as it was.
C9_ValidIffLoaded ==
    /\ (query.op = "valid" /\ Len(query.string) >= 2 /\ Len(query.string) <= 15) =>
          /\ query.result.exc = ""
          /\ query.result.value = (query.string \in Range(loaded))
    /\ (query.op = "add" /\ ListCount(loaded, query.string) >= 2) =>
          trie = query.trie_before

IsProperPrefix(a, b) == Len(a) < Len(b) /\ SubSeq(b, 1, Len(a)) = a

\* a word was added twice, and the string asked for is reported as no word
\* although it is a proper prefix of a loaded word
C9_Witness ==
    /\ query.op = "valid"
    /\ Len(query.string) >= 2
    /\ query.result.value = FALSE
    /\ \E w \in Range(loaded) : IsProperPrefix(query.string, w)
    /\ \E w \in Range(loaded) : ListCount(loaded, w) >= 2

\* the pattern p with its space replaced by c
Completed(p, c) == [i \in 1..Len(p) |-> IF p[i] = " " THEN c ELSE p[i]]

\* the 0-based index of the space of p
SpaceIndex(p) == (CHOOSE i \in 1..Len(p) : p[i] = " ") - 1

\* the map that the claim expects for the pattern p
ExpectedCompletion(p) ==
    [c \in {x \in UpperAlphabet : Completed(p, x) \in Range(loaded)} |->
        [index |-> SpaceIndex(p), word_str |-> Completed(p, c)]]

\* C10 as stated: for every pattern of 1 to 15 characters with exactly one
\* space, possible_word_set_from_string returns the map of the completing
\* letters.
C10_Original ==
    query.op = "pattern" =>
        /\ query.result.exc = ""
        /\ query.result.value = ExpectedCompletion(query.string)

\* C10 amended: for every pattern of 2 to 15 characters with exactly one
\* space, possible_word_set_from_string returns a map whose keys are exactly
\* the letters that complete the pattern to a loaded word, each with the
\* index of the space and the completed word; the map is empty when no
\* letter fits.  (A pattern made of the space alone fails the length
\* assertion of this_is_a_valid_word.)
C10_PatternCompletion ==
    (query.op = "pattern" /\ Len(query.string) >= 2) =>
        /\ query.result.exc = ""
        /\ query.result.value = ExpectedCompletion(query.string)

\* two letters complete a pattern whose space is not its first character
C10_Witness ==
    /\ query.op = "pattern"
    /\ Len(query.string) >= 2
    /\ query.result.exc = ""
    /\ Cardinality(DOMAIN query.result.value) = 2
    /\ \E c \in DOMAIN query.result.value : query.result.value[c].index >= 1


-----------------------------------------------------------------------------
(* Properties of the move generator, stated on the board of the game and    *)
(* on the solutions handed back, without the operators of the generator     *)

\* a run of the generator has returned its list
Generated == gen.op = "generate" /\ gen.exc = ""

\* the solutions of the last run
Solutions == Range(gen.solution_list)

\* a letter lies on the board
BoardHasLetters == \E c \in 0..224 : board[c] # " "

\* the cell (row, col) is on the board and holds a letter
Occupied(row, col) ==
    row \in 0..14 /\ col \in 0..14 /\ board[row * 15 + col] # " "

\* one cell further along a direction
StepOf(direction) == IF direction = "Accross" THEN <<0, 1>> ELSE <<1, 0>>

\* the number of occupied cells in a row from (row, col) on
RECURSIVE RunFrom(_, _, _)
RunFrom(row, col, step) ==
    IF Occupied(row, col)
    THEN 1 + RunFrom(row + step[1], col + step[2], step)
    ELSE 0

\* the cell of letter i (from 0) of the word w
CellOf(w, i) ==
    [row |-> w.origin.row + i * StepOf(w.direction)[1],
     col |-> w.origin.col + i * StepOf(w.direction)[2]]

\* the cell of letter i of w as an index of the flat lists
CellIndex(w, i) == CellOf(w, i).row * 15 + CellOf(w, i).col

\* the indices of the letters of w that lie on empty cells
NewIndices(w) == {i \in 0..(Len(w.text) - 1) : board[CellIndex(w, i)] = " "}

\* the indices a solution lays a blank on
JokerIndices(s) == {j.index : j \in s.joker_set}

\* the maximal run of letters through the tile laid for letter i of w, at
\* right angles to w, with the place of the tile in it
PerpendicularWord(w, i) ==
    LET d == IF w.direction = "Accross" THEN "Down" ELSE "Accross"
        st == StepOf(d)
        p == CellOf(w, i)
        nbefore == RunFrom(p.row - st[1], p.col - st[2], <<0 - st[1], 0 - st[2]>>)
        nafter == RunFrom(p.row + st[1], p.col + st[2], st)
        origin == [row |-> p.row - nbefore * st[1], col |-> p.col - nbefore * st[2]]
        text == [k \in 1..(nbefore + 1 + nafter) |->
                    IF k = nbefore + 1 THEN w.text[i + 1]
                    ELSE board[(origin.row + (k - 1) * st[1]) * 15
                               + origin.col + (k - 1) * st[2]]]
    IN  [word |-> [text |-> text, direction |-> d, origin |-> origin],
         index_of_main_word_line |-> nbefore]

\* C3: on a board that holds letters, every word of two letters or more that
\* a tile newly laid by a solution forms at right angles to the main word is
\* a word of the lexicon and is in the cross-word list of the solution, with
\* the origin and the intersection index it has on the board
C3_CrossWordsFormed ==
    (Generated /\ BoardHasLetters) =>
        \A s \in Solutions : \A i \in NewIndices(s.main_word) :
            LET cw == PerpendicularWord(s.main_word, i)
            IN  Len(cw.word.text) >= 2 =>
                    /\ cw.word.text \in Range(loaded)
                    /\ cw \in Range(s.cross_word_list)

\* a solution lays a tile below or right of letters and forms a word with
\* them, and a solution lays a tile above or left of letters
C3_Witness ==
    /\ Generated
    /\ BoardHasLetters
    /\ \E s \in Solutions : \E i \in NewIndices(s.main_word) :
           /\ PerpendicularWord(s.main_word, i).index_of_main_word_line >= 1
           /\ PerpendicularWord(s.main_word, i) \in Range(s.cross_word_list)
    /\ \E s \in Solutions : \E i \in NewIndices(s.main_word) :
           /\ PerpendicularWord(s.main_word, i).index_of_main_word_line = 0
           /\ Len(PerpendicularWord(s.main_word, i).word.text) >= 2

\* the number of letters c among the newly laid letters of w before letter i
EarlierNew(w, i, c) ==
    Cardinality({k \in NewIndices(w) : k < i /\ w.text[k + 1] = c})

\* C4: in every solution the newly laid letters outside the joker set are
\* letter tiles of the rack, as many times at most as the rack holds them;
\* the joker set is no larger than the number of blanks of the rack; and an
\* index is in the joker set exactly when it is newly laid and the rack has
\* no tile of its letter left once the newly laid letters before it have
\* taken theirs
C4_JokerSet ==
    Generated =>
        \A s \in Solutions :
            LET w == s.main_word
                laid == NewIndices(w) \ JokerIndices(s)
            IN  /\ \A c \in UpperAlphabet :
                       Cardinality({i \in laid : w.text[i + 1] = c})
                           <= ListCount(gen.tile_list, c)
                /\ Cardinality(s.joker_set) <= ListCount(gen.tile_list, " ")
                /\ \A j \in s.joker_set :
                       /\ j.index \in 0..(Len(w.text) - 1)
                       /\ j.letter = w.text[j.index + 1]
                /\ \A i \in 0..(Len(w.text) - 1) :
                       i \in JokerIndices(s) <=>
                           /\ i \in NewIndices(w)
                           /\ EarlierNew(w, i, w.text[i + 1])
                                  >= ListCount(gen.tile_list, w.text[i + 1])

\* a solution lays a letter twice with one tile of it in the rack: the first
\* from the tile, the second as a blank
C4_Witness ==
    /\ Generated
    /\ \E s \in Solutions : \E i \in JokerIndices(s) :
           \E k \in NewIndices(s.main_word) \ JokerIndices(s) :
               /\ k < i
               /\ s.main_word.text[k + 1] = s.main_word.text[i + 1]
               /\ ListCount(gen.tile_list, s.main_word.text[i + 1]) = 1

\* the letters of w fit the board: each cell is empty or holds the letter
FitsBoard(w) ==
    \A i \in 0..(Len(w.text) - 1) : board[CellIndex(w, i)] \in {" ", w.text[i + 1]}

\* C5: wherever the main word or a cross word of a solution covers an
\* occupied cell, its letter is the letter of the board, so that placing the
\* solution never raises BoardCoordinateAlreadyOccupied
C5_NoConflict ==
    /\ Generated =>
           \A s \in Solutions :
               /\ FitsBoard(s.main_word)
               /\ \A k \in DOMAIN s.cross_word_list : FitsBoard(s.cross_word_list[k].word)
               /\ play_solution(BoardRec, s).exc # "BoardCoordinateAlreadyOccupied"
    /\ play.op = "play" => play.exc # "BoardCoordinateAlreadyOccupied"

\* a solution with a cross word has been placed over letters of the board
C5_Witness ==
    /\ play.op = "play"
    /\ play.exc = ""
    /\ Len(play.solution.cross_word_list) >= 1
    /\ Len(play.letter_from_rack_list) < Len(play.solution.main_word.text)
    /\ \A i \in 0..(Len(play.solution.main_word.text) - 1) :
           board[CellIndex(play.solution.main_word, i)] = play.solution.main_word.text[i + 1]

\* the sum and the product of the numbers f[x], x in S
RECURSIVE SumOf(_, _)
SumOf(f, S) ==
    IF S = {} THEN 0
    ELSE LET x == CHOOSE y \in S : TRUE IN f[x] + SumOf(f, S \ {x})

RECURSIVE ProductOf(_, _)
ProductOf(f, S) ==
    IF S = {} THEN 1
    ELSE LET x == CHOOSE y \in S : TRUE IN f[x] * ProductOf(f, S \ {x})

\* the value of the main word of s
MainValue(s) ==
    LET w == s.main_word
        all == 0..(Len(w.text) - 1)
        new == NewIndices(w)
        points == [i \in all |->
                      IF i \notin new THEN board_values[CellIndex(w, i)]
                      ELSE IF i \in JokerIndices(s) THEN 0
                      ELSE character_value(w.text[i + 1])
                           * LETTER_MULTIPLIER_SET[CellIndex(w, i) + 1]]
        factor == [i \in new |-> WORD_MULTIPLIER_SET[CellIndex(w, i) + 1]]
    IN  SumOf(points, all) * ProductOf(factor, new)
        + (IF Cardinality(new) >= 7 THEN 50 ELSE 0)

\* the value of the cross word cw of s
CrossValue(s, cw) ==
    LET w == cw.word
        k == cw.index_of_main_word_line
        crossing == CellOf(w, k)
        blank == \E j \in s.joker_set : CellOf(s.main_word, j.index) = crossing
        others == (0..(Len(w.text) - 1)) \ {k}
        stored == [i \in others |-> board_values[CellIndex(w, i)]]
    IN  ((IF blank THEN 0
          ELSE character_value(w.text[k + 1]) * LETTER_MULTIPLIER_SET[CellIndex(w, k) + 1])
         + SumOf(stored, others))
        * WORD_MULTIPLIER_SET[CellIndex(w, k) + 1]

\* C6: the value of a solution is the value of its main word plus the values
\* of its cross words.  The main word: the stored values of its occupied
\* cells plus letter value times letter multiplier of its newly laid tiles
\* (0 for a blank), times the word multipliers of the newly laid cells, plus
\* 50 when 7 cells or more are newly laid.  A cross word: the crossing tile
\* counted the same way plus the stored values of its other cells, times the
\* word multiplier of the crossing cell.  The score is the value.
C6_Value ==
    Generated =>
        \A s \in Solutions :
            /\ s.value = MainValue(s)
                         + SumOf([k \in DOMAIN s.cross_word_list |->
                                     CrossValue(s, s.cross_word_list[k])],
                                 DOMAIN s.cross_word_list)
            /\ s.score = s.value

\* a solution lays a blank at the crossing of a cross word, another a letter
\* tile on a cell with a multiplier at the crossing of a cross word, and the
\* main word of one covers a letter of the board
C6_Witness ==
    /\ Generated
    /\ \E s \in Solutions : \E k \in DOMAIN s.cross_word_list :
           \E j \in s.joker_set :
               CellOf(s.main_word, j.index)
                   = CellOf(s.cross_word_list[k].word,
                            s.cross_word_list[k].index_of_main_word_line)
    /\ \E s \in Solutions : \E i \in NewIndices(s.main_word) \ JokerIndices(s) :
           /\ Len(PerpendicularWord(s.main_word, i).word.text) >= 2
           /\ \/ LETTER_MULTIPLIER_SET[CellIndex(s.main_word, i) + 1] > 1
              \/ WORD_MULTIPLIER_SET[CellIndex(s.main_word, i) + 1] > 1
    /\ \E s \in Solutions : NewIndices(s.main_word) # 0..(Len(s.main_word.text) - 1)

\* a solution that lays seven tiles has been generated
C6_BonusGenerated ==
    /\ Generated
    /\ \E s \in Solutions : Cardinality(NewIndices(s.main_word)) >= 7 /\ s.value >= 50

\* C7: the list of solutions is in non-decreasing order of score, solutions
\* of equal score in non-decreasing order of main-word text; the best
\* solution is the last of the list and no solution has a higher score; with
\* no solution both calls return False
C7_SortedBest ==
    Generated =>
        /\ \A i, j \in DOMAIN gen.solution_list :
               i < j =>
                   /\ gen.solution_list[i].score <= gen.solution_list[j].score
                   /\ gen.solution_list[i].score = gen.solution_list[j].score =>
                          ~StrLess(gen.solution_list[j].main_word.text,
                                   gen.solution_list[i].main_word.text)
        /\ gen.found <=> Len(gen.solution_list) > 0
        /\ gen.found =>
               /\ gen.best = <<gen.solution_list[Len(gen.solution_list)]>>
               /\ \A s \in Solutions : s.score <= gen.best[1].score
        /\ ~gen.found => gen.best = <<>>

\* a list with two solutions of equal score and different texts, and two of
\* different scores of which the first comes later in the alphabet
C7_Witness ==
    /\ Generated
    /\ gen.found
    /\ \E i, j \in DOMAIN gen.solution_list :
           /\ i < j
           /\ gen.solution_list[i].score = gen.solution_list[j].score
           /\ gen.solution_list[i].main_word.text # gen.solution_list[j].main_word.text
    /\ \E i, j \in DOMAIN gen.solution_list :
           /\ i < j
           /\ gen.solution_list[i].score < gen.solution_list[j].score
           /\ StrLess(gen.solution_list[j].main_word.text,
                      gen.solution_list[i].main_word.text)

\* no solution is found
C7_NoneFound == Generated /\ ~gen.found

\* C8: for one board, one rack and one lexicon the generator hands back the
\* same list of solutions whatever the order in which the set of candidate
\* words of the lexicon is iterated
C8_OrderIndependent ==
    (prev_gen.op = "generate" /\ gen.op = "generate") =>
        /\ prev_gen.exc = gen.exc
        /\ prev_gen.found = gen.found
        /\ prev_gen.solution_list = gen.solution_list
        /\ prev_gen.best = gen.best
-----------------------------------------------------------------------------
(* Properties of the mask of a line, stated on the cells of the board and   *)
(* on the words loaded into the lexicon                                      *)

\* the lines of the board: 15 across and 15 down
BoardLines == {Line(direction, line_index) : direction \in {"Accross", "Down"},
                                             line_index \in 0..14}

\* the occupied cells in a row that end just before (row, col) along step,
\* and those that start just after it
SpanBefore(row, col, step) == RunFrom(row - step[1], col - step[2], <<-step[1], -step[2]>>)
SpanAfter(row, col, step) == RunFrom(row + step[1], col + step[2], step)

\* the contiguous span through the empty cell (row, col) along step, with
\* letter c in the cell
SpanText(row, col, step, c) ==
    [k \in 1..(SpanBefore(row, col, step) + 1 + SpanAfter(row, col, step)) |->
        IF k = SpanBefore(row, col, step) + 1 THEN c
        ELSE board[(row + (k - 1 - SpanBefore(row, col, step)) * step[1]) * 15
                   + col + (k - 1 - SpanBefore(row, col, step)) * step[2]]]

\* the letters that make the span through (row, col) a word of the lexicon
SpanLetters(row, col, step) ==
    {c \in UpperAlphabet : SpanText(row, col, step, c) \in Range(loaded)}

\* what the mask of a line must tell of the cell (row, col), step being one
\* cell along the other direction
ExpectedMaskItem(row, col, step) ==
    IF board[row * 15 + col] # " "
    THEN MaskItemStr(board[row * 15 + col])
    ELSE IF SpanBefore(row, col, step) + SpanAfter(row, col, step) = 0
    THEN MaskItemDict(<<>>)
    ELSE IF SpanLetters(row, col, step) = {}
    THEN MaskItemNone
    ELSE MaskItemDict([c \in SpanLetters(row, col, step) |->
                          [index |-> SpanBefore(row, col, step),
                           word_str |-> SpanText(row, col, step, c)]])

\* the cell n (from 0) of a line
LineCell(line, n) ==
    IF line.direction = "Accross" THEN <<line.line_index, n>> ELSE <<n, line.line_index>>

\* the mask of the line is the expected one
MaskAsExpected(line, mask) ==
    /\ mask.exc = ""
    /\ Len(mask.value) = 15
    /\ \A n \in 0..14 :
           mask.value[n + 1] = ExpectedMaskItem(LineCell(line, n)[1], LineCell(line, n)[2],
                                                StepOf(ortho(line.direction)))

\* C11: for every line of the board, build_mask_for_line returns 15 items:
\* the letter of an occupied cell; the open item for an empty cell that has no
\* occupied neighbour across the line; and for any other empty cell the map
\* from exactly the letters that make the contiguous span through the cell a
\* word of the lexicon to the index of the cell in the span and the word, or
\* the dead item when no letter does
C11_MaskOfLine ==
    query.op = "build_mask_for_line" => MaskAsExpected(query.line, query.result)

\* the mask built holds a constrained cell that has a letter on both sides
\* across the line and a dead cell, and on the same board the line along the
\* edge holds a constrained cell
C11_Witness ==
    /\ query.op = "build_mask_for_line"
    /\ query.line.direction = "Accross"
    /\ query.line.line_index \in 1..13
    /\ \E col \in 0..14 :
           /\ board[query.line.line_index * 15 + col] = " "
           /\ board[(query.line.line_index - 1) * 15 + col] # " "
           /\ board[(query.line.line_index + 1) * 15 + col] # " "
           /\ is_cross_word(query.result.value[col + 1])
    /\ \E n \in 1..15 : is_not_usable(query.result.value[n])
    /\ \E n \in 0..14 :
           /\ board[n] = " "
           /\ board[15 + n] # " "
           /\ is_cross_word(build_mask_for_line(BoardRec, trie, Line("Accross", 0)).value[n + 1])

-----------------------------------------------------------------------------
(* Properties of put_on_board, stated on the board before and after a call  *)

\* a call of put_on_board has returned or raised
PutCalled == play.op = "put_on_board"

\* a call of put_on_board has returned
PutReturned == PutCalled /\ play.exc = ""

\* the cells of the word handed to the last call, in the order of its
\* letters, as indices of the flat lists
PutCells == [i \in 1..Len(play.word.text) |-> CellIndex(play.word, i - 1)]

\* letter i of the word met another letter on the board the call found
MeetsOtherLetter(i) ==
    play.before.board[PutCells[i]] \notin {" ", play.word.text[i]}

\* C12: in any sequence of put_on_board calls a cell that holds a letter keeps
\* it and keeps its stored value; a call returns only if each cell of its word
\* was empty or held the letter laid on it, and it raises
\* BoardCoordinateAlreadyOccupied exactly when a cell of the word held another
\* letter
C12_LettersKept ==
    PutCalled =>
        /\ \A c \in 0..224 :
               play.before.board[c] # " " =>
                   /\ board[c] = play.before.board[c]
                   /\ board_values[c] = play.before.board_values[c]
        /\ play.exc \in {"", "BoardCoordinateAlreadyOccupied"}
        /\ play.exc = "BoardCoordinateAlreadyOccupied"
               <=> \E i \in DOMAIN PutCells : MeetsOtherLetter(i)
        /\ play.exc = "" =>
               \A i \in DOMAIN PutCells : board[PutCells[i]] = play.word.text[i]

\* a call returns that lays a word over a cell holding the same letter, on a
\* board where an earlier call has raised
C12_Witness ==
    /\ PutReturned
    /\ play.raised
    /\ \E i \in DOMAIN PutCells :
           play.before.board[PutCells[i]] = play.word.text[i]
    /\ \E i \in DOMAIN PutCells : play.before.board[PutCells[i]] = " "

\* C13: when put_on_board raises, the board is as the call found it: the
\* letters, the stored values, the set of placed words, the index of the
\* positions and the number of moves
C13_RejectedUnchanged ==
    (PutCalled /\ play.exc # "") => BoardRec = play.before

\* the positions where the index lists the word w, and how many times the
\* list of a position holds it
ListedAt(w) == {position \in DOMAIN position_to_words :
                   w \in Range(position_to_words[position])}
TimesListed(w, position) == ListCount(position_to_words[position], w)

\* every position of w is a position of the word handed to the last call
WithinPutWord(w) == Range(positions(w)) \subseteq Range(positions(play.word))

\* C14: after put_on_board(W) returns, W is in the set of placed words and is
\* listed in the index at each of its positions; each word placed before
\* whose positions all lie within those of W has left the set and the list
\* of every position, W itself being listed once again; and no list of the
\* index holds the same word twice
C14_PlacedAndReplaced ==
    PutReturned =>
        /\ play.word \in word_set
        /\ Range(positions(play.word)) \subseteq ListedAt(play.word)
        /\ \A w \in play.before.word_set \ {play.word} :
               WithinPutWord(w) => w \notin word_set /\ ListedAt(w) = {}
        /\ \A position \in DOMAIN position_to_words :
               \A w \in Range(position_to_words[position]) :
                   TimesListed(w, position) = 1

\* the same on a board where no call has raised
C14_AfterReturnsOnly ==
    (PutReturned /\ ~play.raised) =>
        /\ play.word \in word_set
        /\ Range(positions(play.word)) \subseteq ListedAt(play.word)
        /\ \A w \in play.before.word_set \ {play.word} :
               WithinPutWord(w) => w \notin word_set /\ ListedAt(w) = {}
        /\ \A position \in DOMAIN position_to_words :
               \A w \in Range(position_to_words[position]) :
                   TimesListed(w, position) = 1

\* a call returns, on a board where no call has raised, that replaces a word
\* placed before
C14_Replaced ==
    /\ PutReturned
    /\ ~play.raised
    /\ \E w \in play.before.word_set : WithinPutWord(w)

\* the cells of the board as positions
BoardPositions == {Position(row, col) : row \in 0..14, col \in 0..14}

\* C15: after any sequence of put_on_board calls that all returned, from the
\* empty board: each occupied cell is covered by a word of the set of placed
\* words and has a non-empty list in the index; each word of the set is
\* listed at each of its positions; each word listed at a position is in the
\* set and covers the position; and is_filled tells of a cell exactly
\* whether it holds a letter
C15_SetAndIndexAgree ==
    ~play.raised =>
        /\ \A position \in BoardPositions :
               board[Flat(position)] # " " =>
                   /\ \E w \in word_set : position \in Range(positions(w))
                   /\ position \in DOMAIN position_to_words
                   /\ position_to_words[position] # <<>>
        /\ \A w \in word_set : Range(positions(w)) \subseteq ListedAt(w)
        /\ \A position \in DOMAIN position_to_words :
               \A w \in Range(position_to_words[position]) :
                   w \in word_set /\ position \in Range(positions(w))
        /\ \A position \in BoardPositions :
               /\ is_filled(position, BoardRec) <=> board[Flat(position)] # " "
               /\ is_empty(position, BoardRec) <=> board[Flat(position)] = " "

\* calls have returned, none has raised, a word placed before has been
\* replaced and a cell is covered by two words
C15_Witness ==
    /\ PutReturned
    /\ ~play.raised
    /\ \E w \in play.before.word_set : w \notin word_set
    /\ \E position \in DOMAIN position_to_words : Len(position_to_words[position]) = 2

\* the list of each position holds at most two words, at most one of them
\* across and at most one down
OneWordPerDirection ==
    \A position \in DOMAIN position_to_words :
        /\ Len(position_to_words[position]) <= 2
        /\ \A direction \in {"Accross", "Down"} :
               Cardinality({k \in DOMAIN position_to_words[position] :
                               position_to_words[position][k].direction = direction}) <= 1

\* C16: after any sequence of put_on_board calls that all returned, the
\* index lists at most two placed words for any position: at most one across
\* and at most one down
C16_AtMostTwoWords == ~play.raised => OneWordPerDirection

\* the indices (from 0) of the letters the last call was told to lay with a
\* blank
PutJokerIndices == {joker_tuple.index : joker_tuple \in play.joker_set}

\* C17: the stored value of an occupied cell is 0 if the tile laid on it was
\* a blank and the tile value of its letter otherwise: a call of put_on_board
\* stores exactly that on each cell it fills, leaves the stored value of each
\* cell that held a letter as it was whatever its joker set, and the value of
\* an empty cell stays 0
C17_StoredValues ==
    /\ \A c \in 0..224 : board[c] = " " => board_values[c] = 0
    /\ PutCalled =>
           /\ \A i \in DOMAIN PutCells :
                  (play.before.board[PutCells[i]] = " " /\ board[PutCells[i]] # " ") =>
                      board_values[PutCells[i]] =
                          IF (i - 1) \in PutJokerIndices THEN 0
                          ELSE character_value(board[PutCells[i]])
           /\ \A c \in 0..224 :
                  play.before.board[c] # " " =>
                      board_values[c] = play.before.board_values[c]

\* a word is laid with a blank over a cell that holds a tile of value 1, and
\* fills another cell; the cell keeps its value
C17_Witness ==
    /\ PutReturned
    /\ \E i \in DOMAIN PutCells :
           /\ (i - 1) \in PutJokerIndices
           /\ play.before.board[PutCells[i]] # " "
           /\ board_values[PutCells[i]] = 1
    /\ \E i \in DOMAIN PutCells : play.before.board[PutCells[i]] = " "

\* a cell filled with a blank keeps the value 0 under a word laid later
\* without a blank
C17_BlankKept ==
    /\ PutReturned
    /\ PutJokerIndices = {}
    /\ \E i \in DOMAIN PutCells :
           /\ play.before.board[PutCells[i]] # " "
           /\ board_values[PutCells[i]] = 0

-----------------------------------------------------------------------------
(* Properties of the first play                                              *)

-----------------------------------------------------------------------------
(* Properties of the bag of tiles                                            *)

\* the number of tiles of one letter in a list
TilesOf(list, letter) == ListCount(list, letter)

\* the bag holds the complete tile set
BagComplete ==
    /\ Len(bag.bag) = Len(character_set)
    /\ \A letter \in UpperAlphabet \cup {" "} :
           TilesOf(bag.bag, letter) = TilesOf(character_set, letter)

\* C20: after any sequence of get_tile and put_tile_back calls on a bag
\* created full, is_full is true exactly when the bag holds the complete tile
\* set, 102 tiles, and is_empty is true exactly when the bag holds no tile
C20_BagFlags ==
    /\ Len(character_set) = 102
    /\ bag.is_full <=> BagComplete
    /\ bag.is_empty <=> Len(bag.bag) = 0

\* the flag is_full alone tells whether the bag holds the complete tile set
C20_FullFlag == bag.is_full <=> BagComplete

\* every tile has been drawn and all are back in the bag
C20_AllBack == play.op = "put_tile_back" /\ BagComplete /\ bag.is_empty


-----------------------------------------------------------------------------
(* Properties of the exchange of a rack                                      *)

\* a rack of exactly 7 tiles and a bag of at least 7 tiles
ExchangeCondition(tile_list, b) == Len(tile_list) = 7 /\ Len(b.bag) >= 7

\* the exchange condition for player p in the game g
MayExchange(g, p) == ExchangeCondition(g.player_dict[p].rack, g.bag)

\* the bag and the players as the last request has left them
GameNow == [bag |-> bag, player_dict |-> player_dict]

\* between the games from and to the rack of p has been exchanged: it holds
\* 7 tiles again, the bag as many as it did, rack and bag together the same
\* tiles, and score and skip counter of p are as they were
Exchanged(from, to, p) ==
    /\ Len(to.player_dict[p].rack) = 7
    /\ Len(to.bag.bag) = Len(from.bag.bag)
    /\ \A letter \in UpperAlphabet \cup {" "} :
           TilesOf(to.player_dict[p].rack \o to.bag.bag, letter)
               = TilesOf(from.player_dict[p].rack \o from.bag.bag, letter)
    /\ to.player_dict[p].score = from.player_dict[p].score
    /\ to.player_dict[p].nb_skip_in_sequence = from.player_dict[p].nb_skip_in_sequence

\* between the games from and to player p has passed: its skip counter is
\* one more, its rack and the bag are as they were
Passed(from, to, p) ==
    /\ to.player_dict[p].nb_skip_in_sequence = from.player_dict[p].nb_skip_in_sequence + 1
    /\ to.player_dict[p].rack = from.player_dict[p].rack
    /\ to.bag = from.bag

\* the automatic player has had its turn and the generator found it no move
AutoWithoutMove ==
    /\ play.op = "manual_play"
    /\ play.auto_ran
    /\ play.auto_exc = ""
    /\ ~play.auto_found

\* C19: a rack is exchanged only when it holds exactly 7 tiles and the bag
\* at least 7: a manual exchange request in any other situation raises
\* ChangeRackLettersNotAllowed and leaves racks, bag, scores and skip
\* counters as they were, a manual request when the condition holds
\* exchanges the rack, and an automatic player without a move exchanges its
\* rack when the condition holds and otherwise passes, its skip counter
\* going up by one
C19_ExchangeOnlyWhenAllowed ==
    play.op = "manual_play" =>
        /\ play.type_of_play = CHANGE =>
              IF MayExchange(play.before, players_name_list[1])
              THEN /\ play.first_rc = "change"
                   /\ Exchanged(play.before, play.mid, players_name_list[1])
              ELSE /\ play.exc = "ChangeRackLettersNotAllowed"
                   /\ ~play.auto_ran
                   /\ GameNow = play.before
        /\ play.first_rc = "change" => MayExchange(play.before, players_name_list[1])
        /\ play.auto_rc = "change" => MayExchange(play.mid, players_name_list[2])
        /\ AutoWithoutMove =>
              IF MayExchange(play.mid, players_name_list[2])
              THEN /\ play.auto_rc = "change"
                   /\ play.exc = ""
                   /\ Exchanged(play.mid, GameNow, players_name_list[2])
              ELSE /\ play.auto_rc = "skip"
                   /\ play.exc = ""
                   /\ Passed(play.mid, GameNow, players_name_list[2])

\* the manual player has exchanged its rack and the automatic player, which
\* found no move, has exchanged its own
C19_Witness ==
    /\ AutoWithoutMove
    /\ play.type_of_play = CHANGE
    /\ play.first_rc = "change"
    /\ play.auto_rc = "change"
    /\ player_dict[players_name_list[2]].rack
           # play.mid.player_dict[players_name_list[2]].rack

\* a manual exchange request was rejected with a full rack, the bag holding
\* 6 tiles
C19_RejectedOnBag ==
    /\ play.op = "manual_play"
    /\ play.exc = "ChangeRackLettersNotAllowed"
    /\ Len(play.before.player_dict[players_name_list[1]].rack) = 7
    /\ Len(play.before.bag.bag) = 6

\* a manual exchange request was rejected with a rack of 6 tiles
C19_RejectedOnRack ==
    /\ play.op = "manual_play"
    /\ play.exc = "ChangeRackLettersNotAllowed"
    /\ Len(play.before.player_dict[players_name_list[1]].rack) = 6

\* the automatic player found no move and passed, the bag holding 6 tiles
C19_AutoPassed ==
    /\ AutoWithoutMove
    /\ play.auto_rc = "skip"
    /\ Len(play.mid.bag.bag) = 6

-----------------------------------------------------------------------------
(* Properties of the candidates of an anchor                                 *)

\* the words the lexicon returns for the anchor tuple anchor_item of the
\* line, for the rack the generator was given
Candidates(line, mask, anchor_item) ==
    possible_words_for_mask_with_rack(
        trie, SubSeq(mask, anchor_item.left_index + 1, 15), gen.tile_list,
        MinLength(SubSeq(mask, anchor_item.left_index + 1, 15),
                  pos_2_index(line, anchor_item.pos) - anchor_item.left_index + 1))

\* the candidate w laid from index l of the line
CandidateWord(line, l, w) == Word(w, line.direction, index_2_pos(line, l))

\* the cell after the candidate is off the board or holds no letter, and
\* the candidate is not a placed word
Acceptable(line, l, w) ==
    /\ \/ l + Len(w) = 15
       \/ l + Len(w) < 15 /\ board[Flat(index_2_pos(line, l + Len(w)))] = " "
    /\ CandidateWord(line, l, w) \notin word_set

\* the candidates of every anchor tuple of the line are solutions exactly
\* when they are acceptable
CandidatesOfLine(line, mask) ==
    mask.exc = "" =>
        \A anchor_item \in Range(build_left_masks_list(line, mask.value)) :
            Candidates(line, mask.value, anchor_item).exc = "" =>
                \A w \in Candidates(line, mask.value, anchor_item).value :
                    Acceptable(line, anchor_item.left_index, w)
                        => \E s \in Solutions :
                               s.main_word = CandidateWord(line, anchor_item.left_index, w)

\* C21: for each (anchor, start index) pair and each word the lexicon
\* returns for it, a solution is produced unless the cell after the word is
\* on the board and holds a letter or the word is already placed; the
\* rejection of one candidate removes no other candidate of the pair, and a
\* word that ends just before a dead cell is accepted
C21_EachCandidateOnItsOwn ==
    (Generated /\ gen.exc = "" /\ nb_moves > 0) =>
        \A line \in BoardLines :
            CandidatesOfLine(line, build_mask_for_line(BoardRec, trie, line))

-----------------------------------------------------------------------------
(* Properties of the solutions of one line                                   *)

\* get_potential_solutions_for_line has returned its list
LineSolved ==
    /\ query.op = "get_potential_solutions_for_line"
    /\ query.mask.exc = ""
    /\ query.exc = ""

\* the solutions of the line
LineSolutions == Range(query.solution_list)

\* the cell of index n of the line as <<row, col>>, and the step along it
LineStep(line) == IF line.direction = "Accross" THEN <<0, 1>> ELSE <<1, 0>>

\* the number of occupied cells in a row from index n of the line on
LineRun(line, n) ==
    RunFrom(LineCell(line, n)[1], LineCell(line, n)[2], LineStep(line))

\* the cell of index n of the line is on the board and holds a letter
LineOccupied(line, n) == Occupied(LineCell(line, n)[1], LineCell(line, n)[2])

\* the index on its line of the first cell of the word w
OriginIndex(w) == IF w.direction = "Accross" THEN w.origin.col ELSE w.origin.row

\* the main word of every solution covers an occupied cell and is followed
\* by no letter
C22_CoversAndAbsorbs ==
    LineSolved =>
        \A s \in LineSolutions :
            /\ NewIndices(s.main_word) # 0..(Len(s.main_word.text) - 1)
            /\ ~LineOccupied(query.line, OriginIndex(s.main_word) + Len(s.main_word.text))

\* C22: on a non-empty board the main word of every solution covers a cell
\* that was occupied: for every (anchor, start index) pair the minimum
\* length handed to the lexicon reaches the anchor and goes on over the
\* whole run of occupied cells after the anchor, and a word that stops
\* inside that run, also a run that reaches the edge, is no solution
C22_AbsorbsRun ==
    LineSolved =>
        /\ C22_CoversAndAbsorbs
        /\ \A k \in DOMAIN query.anchor_tuple_list :
               query.min_length[k]
                   = pos_2_index(query.line, query.anchor_tuple_list[k].pos) + 1
                     - query.anchor_tuple_list[k].left_index
                     + LineRun(query.line,
                               pos_2_index(query.line, query.anchor_tuple_list[k].pos) + 1)

\* the minimum length of a pair stops short of a run that reaches the edge
C22_ShortAtEdge ==
    /\ LineSolved
    /\ \E k \in DOMAIN query.anchor_tuple_list :
           /\ query.anchor_tuple_list[k].left_index + query.min_length[k] = 14
           /\ LineOccupied(query.line, 14)

-----------------------------------------------------------------------------
(* Properties of the anchor tuples of a line                                 *)

\* build_left_masks_list has returned the anchor tuples of the line
TuplesBuilt ==
    /\ query.op = "get_potential_solutions_for_line"
    /\ query.mask.exc = ""

\* the anchors of the line: cells without a letter followed by a letter
LineAnchors == {a \in 0..13 : ~LineOccupied(query.line, a) /\ LineOccupied(query.line, a + 1)}

\* the places in the list of the tuples of the cell of index a
TuplesOf(a) ==
    {k \in DOMAIN query.anchor_tuple_list :
        pos_2_index(query.line, query.anchor_tuple_list[k].pos) = a}

\* the start indices produced for the cell of index a
StartsOf(a) == {query.anchor_tuple_list[k].left_index : k \in TuplesOf(a)}

\* the anchors that are a single empty cell between two runs of letters
GapAnchors == {a \in LineAnchors : a >= 1 /\ LineOccupied(query.line, a - 1)}

\* the index of the first letter of the run of letters that ends at index n
RECURSIVE RunStart(_, _)
RunStart(line, n) ==
    IF n > 0 /\ LineOccupied(line, n - 1) THEN RunStart(line, n - 1) ELSE n

\* the statement as first made: for an anchor after a letter the one start
\* index is that of the first letter of the run that precedes the anchor
C23_StartsAtPrecedingRun ==
    TuplesBuilt =>
        \A a \in GapAnchors :
            /\ Cardinality(TuplesOf(a)) = 1
            /\ StartsOf(a) = {RunStart(query.line, a - 1)}

\* C23: for an anchor at index a whose preceding cell holds a letter, a
\* single empty cell between two runs of letters, build_left_masks_list
\* produces exactly one start index, a + 1, the index of the first letter of
\* the run that follows the anchor
C23_StartsAfterGap ==
    TuplesBuilt =>
        \A a \in GapAnchors :
            /\ Cardinality(TuplesOf(a)) = 1
            /\ StartsOf(a) = {a + 1}

\* the line holds a single empty cell between two runs of letters, and the
\* run before it starts on a later cell than the first of the line
C23_Witness ==
    /\ TuplesBuilt
    /\ \E a \in GapAnchors :
           /\ StartsOf(a) = {a + 1}
           /\ RunStart(query.line, a - 1) < a - 1

\* the anchors whose cell is usable and whose preceding cell, if any, holds
\* no letter
OpenAnchors ==
    {a \in LineAnchors : /\ is_usable(query.mask.value[a + 1])
                         /\ a = 0 \/ ~LineOccupied(query.line, a - 1)}

\* C24: for every anchor at index a whose cell is usable and whose preceding
\* cell holds no letter, also an anchor at index 0 and an anchor preceded by
\* a dead cell, build_left_masks_list produces at least the start index a
C24_StartsOnAnchor ==
    TuplesBuilt => \A a \in OpenAnchors : a \in StartsOf(a)

\* the same for the anchors that are neither at index 0 nor preceded by a
\* dead cell
C24_StartsOnInnerAnchor ==
    TuplesBuilt =>
        \A a \in OpenAnchors :
            (a > 0 /\ is_usable(query.mask.value[a])) => a \in StartsOf(a)

\* no tuple is produced for a usable anchor at index 0
C24_NoneAtIndex0 == TuplesBuilt /\ 0 \in OpenAnchors /\ TuplesOf(0) = {}

\* no tuple is produced for a usable anchor preceded by a dead cell
C24_NoneAfterDead ==
    /\ TuplesBuilt
    /\ \E a \in OpenAnchors :
           a > 0 /\ is_not_usable(query.mask.value[a]) /\ TuplesOf(a) = {}

\* the window of tuple k, the cells from its start index to its anchor, is
\* made of usable cells only and is at most 7 cells long
WindowOpen(k) ==
    LET a == pos_2_index(query.line, query.anchor_tuple_list[k].pos)
        l == query.anchor_tuple_list[k].left_index
    IN  l <= a =>
            /\ \A n \in l..a : is_usable(query.mask.value[n + 1])
            /\ l >= a - 6

\* the start index of tuple k lies between 0 and the cell after its anchor,
\* and is that cell only when it holds a letter
StartInRange(k) ==
    LET a == pos_2_index(query.line, query.anchor_tuple_list[k].pos)
        l == query.anchor_tuple_list[k].left_index
    IN  /\ 0 <= l
        /\ l <= a + 1
        /\ l = a + 1 => has_letter(query.mask.value[a + 2])

\* tuple k is the one produced for a line whose first cell holds a letter:
\* that cell with the start index 0
FirstCellTuple(k) ==
    /\ pos_2_index(query.line, query.anchor_tuple_list[k].pos) = 0
    /\ query.anchor_tuple_list[k].left_index = 0
    /\ has_letter(query.mask.value[1])

\* the statement as first made: the window of every produced pair with
\* l <= a is made of usable cells only
C25_EveryWindowOpen ==
    TuplesBuilt =>
        \A k \in DOMAIN query.anchor_tuple_list : StartInRange(k) /\ WindowOpen(k)

\* C25: every pair produced by build_left_masks_list with l <= a, but the
\* pair (first cell, 0) produced when the first cell of the line holds a
\* letter, has a window [l, a] made of usable cells only, no letter and no
\* dead cell, of at most 7 cells; every produced pair has 0 <= l <= a + 1,
\* and l = a + 1 only when cell a + 1 holds a letter
C25_WindowOpen ==
    TuplesBuilt =>
        \A k \in DOMAIN query.anchor_tuple_list :
            /\ StartInRange(k)
            /\ ~FirstCellTuple(k) => WindowOpen(k)

\* a window of 7 cells is produced for an anchor, its start fixed by the
\* limit of 7 cells, on a line whose first cell holds a letter
C25_Witness ==
    /\ TuplesBuilt
    /\ \E k \in DOMAIN query.anchor_tuple_list : FirstCellTuple(k)
    /\ \E k \in DOMAIN query.anchor_tuple_list :
           LET a == pos_2_index(query.line, query.anchor_tuple_list[k].pos)
           IN  /\ query.anchor_tuple_list[k].left_index = a - 6
               /\ a >= 7

\* C27: for every solution generated on a non-empty board the cell just
\* before the origin of the main word along its line is off the board or
\* empty, also when the start index was fixed by the limit of 7 cells: a
\* main word is never glued to letters that it does not include
C27_NotGlued ==
    LineSolved =>
        \A s \in LineSolutions :
            ~LineOccupied(query.line, OriginIndex(s.main_word) - 1)

\* the same for the solutions that lay fewer than 7 tiles
C27_NotGluedBelowLimit ==
    LineSolved =>
        \A s \in LineSolutions :
            Cardinality(NewIndices(s.main_word)) < 7 =>
                ~LineOccupied(query.line, OriginIndex(s.main_word) - 1)

-----------------------------------------------------------------------------
(* Properties of the words that put_on_board takes out of the set and index *)

\* w runs as v runs, from the same origin, and its text is a proper prefix of
\* the text of v
StrictPrefix(w, v) ==
    /\ w.direction = v.direction
    /\ w.origin = v.origin
    /\ Len(w.text) < Len(v.text)
    /\ w.text = SubSeq(v.text, 1, Len(w.text))

\* the index lists w as the index of the board the last call found did
SameEntries(w) ==
    \A position \in DOMAIN play.before.position_to_words :
        /\ position \in DOMAIN position_to_words
        /\ TimesListed(w, position)
               = ListCount(play.before.position_to_words[position], w)

\* put_on_board(W) takes a placed word out of the set of placed words only
\* when it is a strict prefix of W; every other placed word keeps its entry
\* in the set and in the index
C26_RemovesOnlyPrefix ==
    PutCalled =>
        \A w \in play.before.word_set \ {play.word} :
            ~StrictPrefix(w, play.word) => w \in word_set /\ SameEntries(w)

\* C26: put_on_board(W) takes a placed word other than W out of the set of
\* placed words and out of the index exactly when each of its positions is a
\* position of W, be it at the start, at the end or inside W; every other
\* placed word keeps its entry in the set and in the index
C26_RemovesContained ==
    PutCalled =>
        \A w \in play.before.word_set \ {play.word} :
            IF WithinPutWord(w)
            THEN w \notin word_set /\ ListedAt(w) = {}
            ELSE w \in word_set /\ SameEntries(w)

\* a call returns, on a board where no call has raised, that takes out a
\* word covering the end of its word and keeps a word that crosses it
C26_Witness ==
    /\ PutReturned
    /\ ~play.raised
    /\ \E w \in play.before.word_set :
           /\ WithinPutWord(w)
           /\ w.origin # play.word.origin
           /\ w \notin word_set
    /\ \E w \in play.before.word_set :
           /\ ~WithinPutWord(w)
           /\ Range(positions(w)) \cap Range(positions(play.word)) # {}
           /\ w \in word_set

-----------------------------------------------------------------------------
(* Properties of a game of automatic players                                 *)

\* a turn of the loop of automatic_play has run
TurnPlayed == play.op = "automatic_play"

\* the player of the last turn has laid a word
WordPlayed == TurnPlayed /\ play.exc = "" /\ play.rc = "played"

\* the tiles the player of the last turn kept on the rack once the word was
\* laid
TilesKept ==
    Len(play.before.player_dict[play.player].rack) - Len(play.letter_from_rack_list)

\* the smaller of two numbers
Min2(a, b) == IF a <= b THEN a ELSE b

\* C28: in a game of automatic players, after any sequence of plays, passes
\* and exchanges, the bag, the racks and the board hold together the tiles
\* the game began with, a blank laid on the board counting as a blank; no
\* rack holds more than 7 tiles; and after a play that found tiles in the
\* bag the rack of the player holds min(7, tiles kept + tiles in the bag)
C28_TilesConserved ==
    /\ TileCounts(bag, player_dict, board, board_values) = play.start
    /\ \A p \in DOMAIN player_dict : Len(player_dict[p].rack) <= 7
    /\ (WordPlayed /\ BagLen(play.before.bag) > 0) =>
           Len(player_dict[play.player].rack)
               = Min2(7, TilesKept + BagLen(play.before.bag))

\* a word has been laid with a blank by a player who found in the bag fewer
\* tiles than the word took, after an earlier turn
C28_Witness ==
    /\ WordPlayed
    /\ play.nb_turns >= 2
    /\ " " \in Range(play.letter_from_rack_list)
    /\ BagLen(play.before.bag) > 0
    /\ BagLen(play.before.bag) < Len(play.letter_from_rack_list)
    /\ Len(player_dict[play.player].rack) < 7

-----------------------------------------------------------------------------
(* Properties of the final scoring                                           *)

\* the final scoring has moved to finisher the value of the tiles the other
\* player holds, from the scores before as the loop left them
ScoredFor(finisher, other, before) ==
    /\ player_dict[finisher].score
           = before[finisher].score + RackValue(player_dict[other].rack)
    /\ player_dict[other].score
           = before[other].score - RackValue(player_dict[other].rack)
    /\ player_dict[finisher].score + player_dict[other].score
           = before[finisher].score + before[other].score

\* manual_play has returned game_over after the automatic player laid its
\* last tiles, the bag being empty
RobotFinished ==
    /\ play.op = "manual_play"
    /\ play.exc = ""
    /\ play.game_over
    /\ play.auto_ran
    /\ play.auto_rc = "played"

\* C29: when a game ends because a player has emptied the rack while the bag
\* is empty, the score of that player grows by the value of the tiles left
\* on the rack of the other player, whose score falls by as much, the sum of
\* the scores staying as it was; here in manual_play when the automatic
\* player that follows the manual one is the finisher
C29_FinisherScored ==
    RobotFinished =>
        ScoredFor(players_name_list[2], players_name_list[1], play.loop)

\* the same in automatic_play
C29_AutomaticGame ==
    (TurnPlayed /\ play.status = "over" /\ play.rc = "played") =>
        ScoredFor(play.player,
                  CHOOSE op \in DOMAIN player_dict : op # play.player,
                  play.loop)

\* a game of automatic players ends with the last tiles of a player
C29_AutomaticEnded ==
    /\ TurnPlayed /\ play.status = "over" /\ play.rc = "played"
    /\ player_dict[play.player].rack = <<>>
    /\ bag.bag = <<>>

-----------------------------------------------------------------------------
(* Properties of a call of the dictionary server                             *)

\* a call of the dictionary server has begun
ServerCalled == query.op = "_call_dictionary_server_method"

\* the call has received a reply of the server
ReplyReceived == query.received # <<>>

\* C30: one call of the dictionary server sends the request at most 3
\* times; once a reply is received nothing more is sent and the call is
\* over: it returns the reply of the server when the reply tells success and
\* raises DictionaryServerInternalError when it tells failure; it raises
\* DictionaryServerNotResponding after exactly 3 time-outs in a row, and it
\* returns nothing but a reply that told success
C30_ThreeAttempts ==
    ServerCalled =>
        /\ query.nb_sent <= 3
        /\ query.pc = "poll" =>
               /\ ~ReplyReceived
               /\ query.nb_time_outs < 3
               /\ query.nb_sent = query.nb_time_outs + 1
        /\ ReplyReceived =>
               /\ query.nb_sent = query.nb_time_outs + 1
               /\ query.received[1]
                      = ServerRet(trie, query.method_str, query.kwargs)
               /\ query.pc = IF query.received[1].success THEN "returned" ELSE "raised"
        /\ query.pc = "returned" =>
               /\ ReplyReceived
               /\ query.received[1].success
               /\ query.message_reply = <<query.received[1].message_reply>>
        /\ query.pc = "raised" =>
               IF ReplyReceived
               THEN query.exc = "DictionaryServerInternalError"
               ELSE /\ query.exc = "DictionaryServerNotResponding"
                    /\ query.nb_time_outs = 3
                    /\ query.nb_sent = 3

\* the second call of a client returns the reply to its third request
C30_Witness ==
    /\ ServerCalled
    /\ query.nb_calls = 2
    /\ query.pc = "returned"
    /\ query.nb_time_outs = 2
    /\ query.nb_sent = 3

\* a call raises DictionaryServerInternalError on the reply to its second
\* request
C30_FailureReply ==
    /\ ServerCalled
    /\ query.pc = "raised"
    /\ query.exc = "DictionaryServerInternalError"
    /\ query.nb_sent = 2
====
